---------------------------- MODULE Spec2Model ----------------------------
(***************************************************************************)
(* Patient identifier resolution (utils/patient-id-resolver.js).           *)
(*                                                                         *)
(* JavaScript strings are sequences of one-character strings, so that      *)
(* trim() and toLowerCase() are computed and not assumed.  The Firestore   *)
(* collection 'patients' is the variable charts: a function from chart     *)
(* document ids to the fields id, userId and phone of the document.        *)
(* A resolvePatientIds call is one action; which lookups the store        *)
(* rejects is an input of the call, and a limited query returns the first  *)
(* matches in ascending document id.                                       *)
(*                                                                         *)
(* Spec       one resolvePatientIds call against every store of Stores.    *)
(* SpecCache  resolvePatientIdsCached calls that overlap, the clock and    *)
(*            the chart store changing between them.                       *)
(* SpecSweep  the same calls on a patientIdCache that is about to pass the *)
(*            1000 entries of the clean-up.                                *)
(* SpecRoutes the list routes of prescriptions, lab requests and lab       *)
(*            results over the Mongo collections.                          *)
(* SpecAuth   requests with and without a Firebase token at every mount of *)
(*            app.js.                                                      *)
(* SpecOutage cached calls while every chart lookup is rejected.           *)
(* SpecRx     PATCH of a prescription by admin, prescriber and others.     *)
(* SpecLab    result uploads and the delete of a lab request.              *)
(* SpecComplete  call logs and the completion of an appointment.           *)
(* SpecAppt   PATCH of a telemedicine appointment.                         *)
(* SpecSlots  appointments and the open slots of a provider.               *)
(***************************************************************************)
EXTENDS Integers, Sequences, FiniteSets, TLC

VARIABLES charts, pc, args, outcome, now, cache, calls, records, requests

vars == <<charts, pc, args, outcome, now, cache, calls, records, requests>>

\* What a bare resolvePatientIds call does not touch: the clock, the module's
\* patientIdCache, the resolvePatientIdsCached calls in flight, the Mongo
\* collections and the HTTP requests.
outside == <<now, cache, calls, records, requests>>

-----------------------------------------------------------------------------
(* Bounds *)

\* Largest number of duplicate / legacy chart documents linked to one account.
MaxCharts == 6

-----------------------------------------------------------------------------
(* JavaScript values *)

\* A missing property / an undefined argument.
Undefined == <<"undefined">>

\* The boolean true as a JavaScript value.
True == <<"true">>

Space == " "

\* The empty string.
Empty == <<>>

\* String.prototype.trim: strips leading and trailing whitespace.
RECURSIVE TrimStart(_)
TrimStart(s) ==
  IF s = Empty THEN s
  ELSE IF Head(s) = Space THEN TrimStart(Tail(s)) ELSE s

RECURSIVE TrimEnd(_)
TrimEnd(s) ==
  IF s = Empty THEN s
  ELSE IF s[Len(s)] = Space THEN TrimEnd(SubSeq(s, 1, Len(s) - 1)) ELSE s

Trim(s) == TrimEnd(TrimStart(s))

\* String.prototype.toLowerCase over the letters the model uses.
LowerChar(c) ==
  CASE c = "P" -> "p"
    [] c = "U" -> "u"
    [] c = "C" -> "c"
    [] c = "D" -> "d"
    [] c = "L" -> "l"
    [] OTHER -> c

ToLowerCase(s) == [i \in 1..Len(s) |-> LowerChar(s[i])]

\* JavaScript truthiness of a string-or-undefined value.
Truthy(v) == v # Undefined /\ v # Empty

\* Reading the property isNotEmpty of a string: String.prototype has no such
\* property, the read yields undefined.
StringIsNotEmptyProperty(s) == Undefined

\* v == true (loose equality): undefined == true is false.
LooseEqualsTrue(v) == v = True

Min(a, b) == IF a < b THEN a ELSE b

-----------------------------------------------------------------------------
(* Identifiers, profiles and chart stores the calls are made with *)

U1 == <<"U", "1">>
U2 == <<"U", "2">>
C1 == <<"C", "1">>
C9 == <<"C", "9">>
L1 == <<"L", "1">>
P1 == <<"P", "1">>

RolePatient == <<"p", "a", "t", "i", "e", "n", "t">>
RolePatientCapital == <<"P", "a", "t", "i", "e", "n", "t">>
RoleDoctor == <<"d", "o", "c", "t", "o", "r">>

Roles == {RolePatient, RolePatientCapital, RoleDoctor}

\* params.requestedId: empty, whitespace only, padded, an auth uid, a chart id.
RequestedIds == {Empty, <<Space>>, <<Space, "U", "1", Space>>, U1, C1}

\* params.userUid
UserUids == {Empty, U1}

\* profile.patientId
LinkedIds == {Undefined, <<Space>>, <<Space, "L", "1", Space>>}

\* profile.phone
Phones == {Undefined, <<"P", "1", Space>>}

Profiles == [role : Roles, patientId : LinkedIds, phone : Phones]

\* The lookups of the resolver, by what they read.
LookupKinds == {"phone", "id", "userId", "doc"}

\* Which lookups the store rejects during one call: none, one, or all.
Failings == {{}} \cup {{k} : k \in LookupKinds \ {"phone"}} \cup {LookupKinds}

DigitsUp == <<"1", "2", "3", "4", "5", "6", "7", "8">>
DigitsDown == <<"9", "8", "7", "6", "5", "4", "3", "2">>

\* Charts that carry the account's uid in the field `id`.
IdFieldChartId(i) == <<"D", DigitsUp[i]>>

\* Charts that carry the account's uid in the field `userId`: C9, C8, ...
UserIdChartId(i) == <<"C", DigitsDown[i]>>

Absent == <<"absent">>

\* A document of the collection 'patients'.
Chart(idField, userId, phone) == [id |-> idField, userId |-> userId, phone |-> phone]

\* A store: chart C1 (with phone P1) and chart U1 (absent, or with the given
\* userId), nId charts whose field id is U1 and nUser charts whose field
\* userId is U1 (duplicates, all with phone P1).
StoreOf(c1, u1, nId, nUser) ==
  LET dom == (IF c1 = Absent THEN {} ELSE {C1})
             \cup (IF u1 = Absent THEN {} ELSE {U1})
             \cup {IdFieldChartId(i) : i \in 1..nId}
             \cup {UserIdChartId(i) : i \in 1..nUser}
  IN [c \in dom |->
        IF c = C1 THEN Chart(Undefined, c1, P1)
        ELSE IF c = U1 THEN Chart(Undefined, u1, Undefined)
        ELSE IF c[1] = "D" THEN Chart(U1, Undefined, P1)
        ELSE Chart(Undefined, U1, P1)]

\* How many charts link to the account by one field: none, one, or more
\* than a limited search returns.
LinkCounts == {0, 1, MaxCharts}

Stores ==
  {StoreOf(c1, u1, nId, nUser) :
     c1 \in {Absent, Undefined, U1, U2},
     u1 \in {Absent, U1, U2},
     nId \in LinkCounts,
     nUser \in LinkCounts}

-----------------------------------------------------------------------------
(* The chart store: admin.firestore().collection('patients') *)

\* .limit(5) of the patient lookups.
SearchLimit == 5

\* .limit(1) of the staff lookups.
StaffSearchLimit == 1

\* A lookup sent to the store.
Query(field, value, limit) ==
  [op |-> "where", field |-> field, value |-> value, limit |-> limit]

DocRead(path) ==
  [op |-> "doc", field |-> "__name__", value |-> path, limit |-> 1]

\* The documents whose field equals value.
Matching(store, field, value) ==
  {c \in DOMAIN store : store[c][field] = value}

\* A search that returns one document at most, whatever the limit.
WhereFirst(store, field, value, n) ==
  LET m == Matching(store, field, value)
  IN {T \in SUBSET m : Cardinality(T) = Min(1, Cardinality(m))}

\* The order of the characters of a document id (UTF-8 byte order).
CharOrder == <<"1", "2", "3", "4", "5", "6", "7", "8", "9", "C", "D", "U">>

CharRank(c) == CHOOSE i \in 1..Len(CharOrder) : CharOrder[i] = c

\* Document ids in the order Firestore returns documents by default
\* (ascending document id).
RECURSIVE NameBefore(_, _)
NameBefore(a, b) ==
  IF a = Empty THEN b # Empty
  ELSE IF b = Empty THEN FALSE
  ELSE IF Head(a) = Head(b) THEN NameBefore(Tail(a), Tail(b))
  ELSE CharRank(Head(a)) < CharRank(Head(b))

\* A limited search that may answer with any n of the matching documents,
\* not the same ones each time.
WhereAny(store, field, value, n) ==
  LET m == Matching(store, field, value)
  IN {T \in SUBSET m : Cardinality(T) = Min(n, Cardinality(m))}

\* .where(field, '==', value).limit(n).get(): the result set the store
\* answers with; the first n matching documents in document-id order, all of
\* them when there are fewer.  (A set of one element: the operators that use
\* it range over the answers of the store.)
Where(store, field, value, n) ==
  LET m == Matching(store, field, value)
  IN {{c \in m : Cardinality({d \in m : NameBefore(d, c)}) < n}}

\* .doc(path).get() rejects when the store fails; .doc('') throws (a document
\* path must be a non-empty string).
DocRejects(path, failing) == "doc" \in failing \/ path = Empty

\* What one try block leaves behind: the ids added to patientIds, the lookups
\* sent, and whether an error was thrown inside it.
Block(ids, lookups, thrown) == [ids |-> ids, lookups |-> lookups, thrown |-> thrown]

\* A strategy whose condition is false.
Skipped == Block({}, {}, FALSE)

\* An error escapes the block (no catch clause).
Rethrow(b) == b

\* catch (error) { console.error(...) }: the error is logged and dropped.
Catch(b) == [b EXCEPT !.thrown = FALSE]

-----------------------------------------------------------------------------
(* resolvePatientIds *)

IsPatient(profile) ==
  profile.role # Undefined /\ ToLowerCase(profile.role) = RolePatient

IsSelfAccess(userUid, requestedId) == userUid = requestedId

\* The seed without the requester's uid.
SeedIdsNoUid(requestedId, userUid, profile) ==
  {requestedId}
  \cup (IF Truthy(profile.patientId) /\ Trim(profile.patientId) # Empty
        THEN {Trim(profile.patientId)} ELSE {})

\* The seed without the requested id.
SeedIdsNoRequested(requestedId, userUid, profile) ==
  (IF IsPatient(profile) /\ Truthy(userUid) THEN {userUid} ELSE {})
  \cup (IF Truthy(profile.patientId) /\ Trim(profile.patientId) # Empty
        THEN {Trim(profile.patientId)} ELSE {})

\* The seed with the requester's uid whatever the role.
SeedIdsAlwaysUid(requestedId, userUid, profile) ==
  {requestedId}
  \cup (IF Truthy(userUid) THEN {userUid} ELSE {})
  \cup (IF Truthy(profile.patientId) /\ Trim(profile.patientId) # Empty
        THEN {Trim(profile.patientId)} ELSE {})

\* The ids added without consulting the store: the requested id, the uid of a
\* patient requester, and the profile's patientId (strategy 1).
SeedIds(requestedId, userUid, profile) ==
  {requestedId}
  \cup (IF IsPatient(profile) /\ Truthy(userUid) THEN {userUid} ELSE {})
  \cup (IF Truthy(profile.patientId) /\ Trim(profile.patientId) # Empty
        THEN {Trim(profile.patientId)} ELSE {})

\* Strategy 1b, the condition: isPatient && phone.trim().isNotEmpty == true.
PhoneFallbackApplies(isPatient, profile) ==
  /\ isPatient
  /\ LooseEqualsTrue(IF profile.phone = Undefined THEN Undefined
                     ELSE StringIsNotEmptyProperty(Trim(profile.phone)))

\* Strategy 1b: charts by phone.
PhoneFallback(store, isPatient, profile, failing) ==
  IF PhoneFallbackApplies(isPatient, profile)
  THEN LET phone == Trim(profile.phone)
           q == Query("phone", phone, SearchLimit)
       IN {Catch(b) : b \in
             IF "phone" \in failing THEN {Block({}, {q}, TRUE)}
             ELSE {Block(T, {q}, FALSE) : T \in Where(store, "phone", phone, SearchLimit)}}
  ELSE {Skipped}

\* Strategy 2b without the document's userId.
DirectDocIdsNoUserId(store, requestedId) ==
  IF requestedId \in DOMAIN store THEN {requestedId} ELSE {}

\* Strategy 2b: the document patients/{requestedId}, and its userId if different.
DirectDocIds(store, requestedId) ==
  IF requestedId \in DOMAIN store
  THEN {requestedId}
       \cup (IF Truthy(store[requestedId].userId) /\ store[requestedId].userId # requestedId
             THEN {store[requestedId].userId} ELSE {})
  ELSE {}

\* The body of the try block of strategy 2: three awaits in sequence, the
\* first that rejects leaves the block.
SelfAccessTry(store, requestedId, failing) ==
  LET q1 == Query("id", requestedId, SearchLimit)
      q2 == Query("userId", requestedId, SearchLimit)
      q3 == DocRead(requestedId)
  IN IF "id" \in failing THEN {Block({}, {q1}, TRUE)}
     ELSE UNION {
       IF "userId" \in failing THEN {Block(byId, {q1, q2}, TRUE)}
       ELSE {IF DocRejects(requestedId, failing)
             THEN Block(byId \cup byUser, {q1, q2, q3}, TRUE)
             ELSE Block(byId \cup byUser \cup DirectDocIds(store, requestedId),
                        {q1, q2, q3}, FALSE)
             : byUser \in Where(store, "userId", requestedId, SearchLimit)}
       : byId \in Where(store, "id", requestedId, SearchLimit)}

\* Strategy 2: a patient reading their own data.
SelfAccess(store, isPatient, isSelfAccess, requestedId, failing) ==
  IF isPatient /\ isSelfAccess
  THEN {Catch(b) : b \in SelfAccessTry(store, requestedId, failing)}
  ELSE {Skipped}

\* The chart's userId is never added.
ChartUserIdNone(store, requestedId) == {}

\* The userId of the document patients/{requestedId}, if it has one.
ChartUserId(store, requestedId) ==
  IF requestedId \in DOMAIN store /\ Truthy(store[requestedId].userId)
  THEN {store[requestedId].userId} ELSE {}

\* The body of the try block of strategy 2c.
ChartIdTry(store, requestedId, userUid, failing) ==
  LET q0 == DocRead(requestedId)
      q1 == Query("id", userUid, SearchLimit)
      q2 == Query("userId", userUid, SearchLimit)
      fromDoc == ChartUserId(store, requestedId)
  IN IF DocRejects(requestedId, failing) THEN {Block({}, {q0}, TRUE)}
     ELSE IF ~Truthy(userUid) THEN {Block(fromDoc, {q0}, FALSE)}
     ELSE IF "id" \in failing THEN {Block(fromDoc, {q0, q1}, TRUE)}
     ELSE UNION {
       IF "userId" \in failing THEN {Block(fromDoc \cup byId, {q0, q1, q2}, TRUE)}
       ELSE {Block(fromDoc \cup byId \cup byUser, {q0, q1, q2}, FALSE)
             : byUser \in Where(store, "userId", userUid, SearchLimit)}
       : byId \in Where(store, "id", userUid, SearchLimit)}

\* Strategy 2c: a patient requesting by an id that is not their uid.
ChartIdAccess(store, isPatient, isSelfAccess, requestedId, userUid, failing) ==
  IF isPatient /\ ~isSelfAccess /\ Truthy(requestedId)
  THEN {Catch(b) : b \in ChartIdTry(store, requestedId, userUid, failing)}
  ELSE {Skipped}

\* Strategy 3 with the field searches run whether or not the chart exists.
StaffTryAlwaysSearch(store, requestedId, failing) ==
  LET q0 == DocRead(requestedId)
      q1 == Query("id", requestedId, StaffSearchLimit)
      q2 == Query("userId", requestedId, StaffSearchLimit)
      fromDoc == ChartUserId(store, requestedId)
  IN IF DocRejects(requestedId, failing) THEN {Block({}, {q0}, TRUE)}
     ELSE IF "id" \in failing THEN {Block(fromDoc, {q0, q1}, TRUE)}
     ELSE UNION {
       IF "userId" \in failing THEN {Block(fromDoc \cup byId, {q0, q1, q2}, TRUE)}
       ELSE {Block(fromDoc \cup byId \cup byUser, {q0, q1, q2}, FALSE)
             : byUser \in Where(store, "userId", requestedId, StaffSearchLimit)}
       : byId \in Where(store, "id", requestedId, StaffSearchLimit)}

\* The body of the try block of strategy 3.
StaffTry(store, requestedId, failing) ==
  LET q0 == DocRead(requestedId)
      q1 == Query("id", requestedId, StaffSearchLimit)
      q2 == Query("userId", requestedId, StaffSearchLimit)
  IN IF DocRejects(requestedId, failing) THEN {Block({}, {q0}, TRUE)}
     ELSE IF requestedId \in DOMAIN store
          THEN {Block(ChartUserId(store, requestedId), {q0}, FALSE)}
     ELSE IF "id" \in failing THEN {Block({}, {q0, q1}, TRUE)}
     ELSE UNION {
       IF "userId" \in failing THEN {Block(byId, {q0, q1, q2}, TRUE)}
       ELSE {Block(byId \cup byUser, {q0, q1, q2}, FALSE)
             : byUser \in Where(store, "userId", requestedId, StaffSearchLimit)}
       : byId \in Where(store, "id", requestedId, StaffSearchLimit)}

\* Strategy 3: staff.
StaffAccess(store, isPatient, requestedId, failing) ==
  IF ~isPatient /\ Truthy(requestedId)
  THEN {Catch(b) : b \in StaffTry(store, requestedId, failing)}
  ELSE {Skipped}

\* No filter at all.
FilterResolvedNone(ids) == ids

\* Array.from(patientIds).filter(id => id && id.trim() !== '')
FilterResolved(ids) == {id \in ids : Truthy(id) /\ Trim(id) # Empty}

\* What a call gives its caller: the resolved ids, or an error (threw), and
\* the lookups it sent to the store.
Outcome(ids, lookups, threw) == [ids |-> ids, lookups |-> lookups, threw |-> threw]

\* resolvePatientIds({ requestedId, userUid, profile }) against store, when
\* the store rejects the lookups in failing: every outcome it can have.
ResolvePatientIds(store, requestedId, userUid, profile, failing) ==
  LET isPatient == IsPatient(profile)
      isSelfAccess == IsSelfAccess(userUid, requestedId)
      seed == SeedIds(requestedId, userUid, profile)
  IN {IF b1.thrown \/ b2.thrown \/ b3.thrown \/ b4.thrown
      THEN Outcome({}, b1.lookups \cup b2.lookups \cup b3.lookups \cup b4.lookups, TRUE)
      ELSE Outcome(FilterResolved(seed \cup b1.ids \cup b2.ids \cup b3.ids \cup b4.ids),
                   b1.lookups \cup b2.lookups \cup b3.lookups \cup b4.lookups, FALSE)
      : b1 \in PhoneFallback(store, isPatient, profile, failing),
        b2 \in SelfAccess(store, isPatient, isSelfAccess, requestedId, failing),
        b3 \in ChartIdAccess(store, isPatient, isSelfAccess, requestedId, userUid, failing),
        b4 \in StaffAccess(store, isPatient, requestedId, failing)}

-----------------------------------------------------------------------------
(* The state machine *)

NoArgs ==
  [requestedId |-> Empty, userUid |-> Empty,
   profile |-> [role |-> RoleDoctor, patientId |-> Undefined, phone |-> Undefined],
   failing |-> {}]

NoOutcome == Outcome({}, {}, FALSE)

Init ==
  /\ charts \in Stores
  /\ pc = "idle"
  /\ args = NoArgs
  /\ outcome = NoOutcome
  /\ now = 0
  /\ cache = {}
  /\ calls = <<>>
  /\ records = {}
  /\ requests = <<>>

\* A caller awaits resolvePatientIds and the call settles.
Resolve ==
  /\ pc = "idle"
  /\ \E requestedId \in RequestedIds, userUid \in UserUids,
        profile \in Profiles, failing \in Failings :
       /\ args' = [requestedId |-> requestedId, userUid |-> userUid,
                   profile |-> profile, failing |-> failing]
       /\ outcome' \in ResolvePatientIds(charts, requestedId, userUid, profile, failing)
  /\ pc' = "returned"
  /\ UNCHANGED <<charts, outside>>

\* The caller takes the array and goes on.
Consume ==
  /\ pc = "returned"
  /\ pc' = "idle"
  /\ args' = NoArgs
  /\ outcome' = NoOutcome
  /\ UNCHANGED <<charts, outside>>

Next == Resolve \/ Consume

Spec == Init /\ [][Next]_vars

-----------------------------------------------------------------------------
(* Vocabulary of the properties *)

Returned == pc = "returned"

\* A string that is empty or whitespace only.
IsBlank(s) == Trim(s) = Empty

\* The caller's profile names the role patient.
PatientCaller == args.profile.role \in {RolePatient, RolePatientCapital}

\* The profile carries a non-blank patientId.
HasLinkedId == args.profile.patientId # Undefined /\ ~IsBlank(args.profile.patientId)

\* ids holds every chart of m, or limit of them when m has more.
ContainsUpTo(ids, m, limit) ==
  Cardinality(ids \cap m) >= Min(limit, Cardinality(m))

\* The field searches among the lookups a call sent.
FieldSearches == {q \in outcome.lookups : q.op = "where"}

\* requestedId, plus callerAuthId for a patient, plus the trimmed linked id.
InputDerivedIds ==
  {args.requestedId}
  \cup (IF PatientCaller THEN {args.userUid} ELSE {})
  \cup (IF HasLinkedId THEN {Trim(args.profile.patientId)} ELSE {})

-----------------------------------------------------------------------------
(* Properties *)

\* C1: when the caller's role is patient and callerAuthId is non-blank, the
\* returned set contains callerAuthId, whatever the chart-store lookups do
\* (succeed, find nothing, or fail).
C1_PatientUidResolved ==
  (Returned /\ PatientCaller /\ ~IsBlank(args.userUid))
    => (~outcome.threw /\ args.userUid \in outcome.ids)

\* A patient asks for a chart id while every lookup fails, and their uid is
\* in the result.
C1_Witness ==
  /\ Returned /\ args.profile.role = RolePatient
  /\ args.userUid = U1 /\ args.requestedId = C1
  /\ args.failing = LookupKinds
  /\ U1 \in outcome.ids

\* C2, as stated: the result contains the trimmed requestedId whenever
\* requestedId is non-blank, and holds no blank string.
C2_TrimmedRequestedIdResolved ==
  Returned =>
    /\ ~IsBlank(args.requestedId) => Trim(args.requestedId) \in outcome.ids
    /\ \A id \in outcome.ids : ~IsBlank(id)

\* C2, amended: the result contains requestedId as it was passed (untrimmed)
\* whenever requestedId is non-blank, and holds no empty or whitespace-only
\* string.
C2_RequestedIdResolved ==
  Returned =>
    /\ ~IsBlank(args.requestedId) => args.requestedId \in outcome.ids
    /\ \A id \in outcome.ids : ~IsBlank(id)

\* A padded requestedId is returned padded, and its trimmed form is not.
C2_Witness ==
  /\ Returned /\ args.requestedId = <<Space, "U", "1", Space>>
  /\ args.requestedId \in outcome.ids
  /\ Trim(args.requestedId) \notin outcome.ids
  /\ \A id \in outcome.ids : ~IsBlank(id)

\* C3, as stated: the result is never empty.
C3_NeverEmpty == Returned => outcome.ids # {}

\* C3, amended: the result is non-empty whenever requestedId is non-blank, or
\* the caller is a patient with a non-blank callerAuthId, or the profile has a
\* non-blank linked id; for an empty requestedId, a non-patient caller and no
\* linked id it is empty.
C3_NonEmptyUnlessAllBlank ==
  Returned =>
    /\ (\/ ~IsBlank(args.requestedId)
        \/ (PatientCaller /\ ~IsBlank(args.userUid))
        \/ HasLinkedId) => outcome.ids # {}
    /\ (args.requestedId = Empty /\ ~PatientCaller /\ ~HasLinkedId)
         => outcome.ids = {}

\* A blank requestedId, and a result that still holds the patient's uid.
C3_Witness ==
  /\ Returned /\ IsBlank(args.requestedId)
  /\ PatientCaller /\ args.userUid = U1 /\ ~HasLinkedId
  /\ outcome.ids = {U1}

\* C4, as stated: when every lookup fails, no exception reaches the caller
\* and the result is exactly requestedId, plus callerAuthId for a patient
\* caller, plus the trimmed linked id when the profile has a non-blank one.
C4_OutageInputDerived ==
  (Returned /\ args.failing = LookupKinds)
    => (~outcome.threw /\ outcome.ids = InputDerivedIds)

\* C4, amended: when every lookup fails, no exception reaches the caller and
\* the result is exactly the non-blank ones among requestedId, callerAuthId
\* (patient caller) and the trimmed linked id.
C4_OutageNonBlankInputDerived ==
  (Returned /\ args.failing = LookupKinds)
    => (~outcome.threw /\ outcome.ids = {id \in InputDerivedIds : ~IsBlank(id)})

\* An outage during a call that sent a lookup to a store with matching charts.
C4_Witness ==
  /\ Returned /\ args.failing = LookupKinds
  /\ args.profile.role = RolePatient /\ args.userUid = U1 /\ args.requestedId = C1
  /\ HasLinkedId
  /\ C1 \in DOMAIN charts /\ charts[C1].userId = U2
  /\ outcome.lookups # {}
  /\ outcome.ids = {C1, U1, L1}

\* What the direct fetch of chart requestedId contributes in self-access:
\* the chart's userId when it differs from requestedId.
DirectFetchKept ==
  (args.requestedId \in DOMAIN charts
   /\ Truthy(charts[args.requestedId].userId)
   /\ charts[args.requestedId].userId # args.requestedId)
    => charts[args.requestedId].userId \in outcome.ids

\* C5: the lookups are isolated from each other; when exactly one lookup of a
\* call fails, what every other applicable lookup of that call contributes is
\* still in the result (patient self-access: the two field searches by
\* requestedId and the direct chart fetch; staff, chart not found: the two
\* field searches).
C5_LookupsIsolated ==
  (Returned /\ Cardinality(args.failing) = 1 /\ ~IsBlank(args.requestedId)) =>
    /\ (PatientCaller /\ args.userUid = args.requestedId) =>
         /\ "id" \notin args.failing =>
              ContainsUpTo(outcome.ids, Matching(charts, "id", args.requestedId), SearchLimit)
         /\ "userId" \notin args.failing =>
              ContainsUpTo(outcome.ids, Matching(charts, "userId", args.requestedId), SearchLimit)
         /\ "doc" \notin args.failing => DirectFetchKept
    /\ (~PatientCaller /\ "doc" \notin args.failing /\ args.requestedId \notin DOMAIN charts) =>
         /\ "id" \notin args.failing =>
              ContainsUpTo(outcome.ids, Matching(charts, "id", args.requestedId), StaffSearchLimit)
         /\ "userId" \notin args.failing =>
              ContainsUpTo(outcome.ids, Matching(charts, "userId", args.requestedId), StaffSearchLimit)

\* C6: for a patient caller whose profile has a non-blank phone, when the
\* phone lookup succeeds the result contains every chart (up to 5) whose phone
\* equals the trimmed phone; for a non-patient caller no phone lookup is sent.
C6_PhoneFallback ==
  Returned =>
    /\ (PatientCaller /\ args.profile.phone # Undefined /\ ~IsBlank(args.profile.phone)
        /\ "phone" \notin args.failing)
         => ContainsUpTo(outcome.ids,
                         Matching(charts, "phone", Trim(args.profile.phone)), SearchLimit)
    /\ ~PatientCaller => \A q \in outcome.lookups : q.field # "phone"

\* C7: patient self-access with every lookup succeeding; the result contains
\* every chart (up to 5) whose field id equals requestedId, every chart (up to
\* 5) whose userId equals requestedId, and the userId of chart requestedId
\* when that chart exists and its userId differs from requestedId.
C7_SelfAccessLookups ==
  (Returned /\ PatientCaller /\ args.userUid = args.requestedId /\ args.failing = {}) =>
    /\ ContainsUpTo(outcome.ids, Matching(charts, "id", args.requestedId), SearchLimit)
    /\ ContainsUpTo(outcome.ids, Matching(charts, "userId", args.requestedId), SearchLimit)
    /\ DirectFetchKept

\* Self-access with more charts by userId than one search returns, and a
\* chart U1 that names another userId.
C7_Witness ==
  /\ Returned /\ args.profile.role = RolePatient
  /\ args.userUid = U1 /\ args.requestedId = U1 /\ args.failing = {}
  /\ Cardinality(Matching(charts, "userId", U1)) > SearchLimit
  /\ Cardinality(outcome.ids \cap Matching(charts, "userId", U1)) = SearchLimit
  /\ Matching(charts, "id", U1) # {}
  /\ Matching(charts, "id", U1) \subseteq outcome.ids
  /\ U1 \in DOMAIN charts /\ charts[U1].userId = U2 /\ U2 \in outcome.ids

\* C8: a patient requesting by an id other than their uid; when chart
\* requestedId exists and has a userId (and its fetch succeeds), that userId
\* is in the result.  With callerAuthId U1, requestedId C1, the store holding
\* only chart C1 with userId U1, no linked id and no phone, the result is
\* exactly {C1, U1}.
C8_ChartIdRequest ==
  Returned =>
    /\ (PatientCaller /\ args.requestedId # args.userUid /\ "doc" \notin args.failing
        /\ args.requestedId \in DOMAIN charts
        /\ Truthy(charts[args.requestedId].userId))
         => charts[args.requestedId].userId \in outcome.ids
    /\ (PatientCaller /\ args.userUid = U1 /\ args.requestedId = C1
        /\ DOMAIN charts = {C1} /\ charts[C1].userId = U1
        /\ args.profile.patientId = Undefined /\ args.profile.phone = Undefined)
         => outcome.ids = {C1, U1}

\* A patient asks for chart C1, which belongs to another account, and the
\* userId U2 of that chart is added.
C8_Witness ==
  /\ Returned /\ args.profile.role = RolePatient
  /\ args.userUid = U1 /\ args.requestedId = C1 /\ args.failing = {}
  /\ DOMAIN charts = {C1} /\ charts[C1].userId = U2
  /\ ~HasLinkedId
  /\ outcome.ids = {C1, U1, U2}

\* The charts tied to the caller's own uid are in the result.
OwnChartsResolved ==
  /\ ContainsUpTo(outcome.ids, Matching(charts, "id", args.userUid), SearchLimit)
  /\ ContainsUpTo(outcome.ids, Matching(charts, "userId", args.userUid), SearchLimit)

\* C9, as stated: for a patient caller with a non-blank callerAuthId and
\* requestedId # callerAuthId (lookups succeeding), the result contains every
\* chart (up to 5 per search) whose field id or userId equals callerAuthId,
\* whether or not chart requestedId exists.
C9_CrossReference ==
  (Returned /\ PatientCaller /\ ~IsBlank(args.userUid)
   /\ args.requestedId # args.userUid /\ args.failing = {})
    => OwnChartsResolved

\* C9, amended: the same, for a requestedId that is not the empty string.
C9_CrossReferenceNonEmptyRequest ==
  (Returned /\ PatientCaller /\ ~IsBlank(args.userUid)
   /\ args.requestedId # args.userUid /\ args.requestedId # Empty
   /\ args.failing = {})
    => OwnChartsResolved

\* A patient asks for a chart that does not exist and gets the charts of
\* their own uid, five of the six that match by the field id.
C9_Witness ==
  /\ Returned /\ args.profile.role = RolePatient
  /\ args.userUid = U1 /\ args.requestedId = C1 /\ args.failing = {}
  /\ C1 \notin DOMAIN charts
  /\ Cardinality(Matching(charts, "id", U1)) > SearchLimit
  /\ Cardinality(outcome.ids \cap Matching(charts, "id", U1)) = SearchLimit
  /\ Matching(charts, "userId", U1) # {}
  /\ Matching(charts, "userId", U1) \subseteq outcome.ids

\* C10: staff (non-patient caller, non-blank requestedId, lookups
\* succeeding); when chart requestedId exists and has a userId, the result
\* contains it and no field search is sent; when the chart does not exist,
\* the result contains one chart whose field id equals requestedId and one
\* whose userId equals requestedId, when there are such charts.  With role
\* doctor, requestedId U1, no chart U1 and chart C9 with userId U1, the
\* result is exactly {U1, C9}.
C10_StaffLookup ==
  (Returned /\ ~PatientCaller /\ ~IsBlank(args.requestedId)) =>
    /\ ("doc" \notin args.failing /\ args.requestedId \in DOMAIN charts
        /\ Truthy(charts[args.requestedId].userId))
         => (charts[args.requestedId].userId \in outcome.ids /\ FieldSearches = {})
    /\ (args.failing = {} /\ args.requestedId \notin DOMAIN charts) =>
         /\ ContainsUpTo(outcome.ids, Matching(charts, "id", args.requestedId), StaffSearchLimit)
         /\ ContainsUpTo(outcome.ids, Matching(charts, "userId", args.requestedId), StaffSearchLimit)
    /\ (args.profile.role = RoleDoctor /\ args.requestedId = U1 /\ args.failing = {}
        /\ DOMAIN charts = {C9} /\ charts[C9].userId = U1
        /\ ~HasLinkedId)
         => outcome.ids = {U1, C9}

\* The doctor scenario.
C10_Witness ==
  /\ Returned /\ args.profile.role = RoleDoctor
  /\ args.requestedId = U1 /\ args.failing = {}
  /\ DOMAIN charts = {C9} /\ charts[C9].userId = U1
  /\ ~HasLinkedId
  /\ FieldSearches # {}
  /\ outcome.ids = {U1, C9}

-----------------------------------------------------------------------------
(* The list routes: routes/patient_prescriptions.routes.js and             *)
(* routes/patient_labs.routes.js over the Mongo collections                *)

\* Most list requests in one behaviour.
MaxRequests == 2

\* A field a Mongo document does not have (or has as null).
Null == <<"null">>

LabA == <<"L", "A">>
LabB == <<"L", "B">>

Routes == {"prescriptions", "lab_requests", "lab_results"}

\* db.collection(...) of each route.
CollectionOf(route) ==
  CASE route = "prescriptions" -> "patient_prescriptions"
    [] route = "lab_requests" -> "lab_requests"
    [] route = "lab_results" -> "lab_results"

\* The documents of the three collections: every combination of a patientId
\* and a patientUid (lab results: for two lab requests).
AllRecords ==
  {[coll |-> c, patientId |-> p, patientUid |-> u, labRequestId |-> l] :
     c \in {"patient_prescriptions", "lab_requests"},
     p \in {U1, C1, C9, IdFieldChartId(1), IdFieldChartId(MaxCharts), U2, Null},
     u \in {Null, U1, U2},
     l \in {Null}}
  \cup
  {[coll |-> c, patientId |-> p, patientUid |-> u, labRequestId |-> l] :
     c \in {"lab_results"},
     p \in {U1, C1, IdFieldChartId(MaxCharts), Null},
     u \in {Null, U1, U2},
     l \in {LabA, LabB}}

\* The chart stores the routes are exercised on: chart C1 of account U1; an
\* account with more charts by the field id than a search returns; charts of
\* another account.
RouteStores ==
  {StoreOf(U1, Absent, 0, 0),
   StoreOf(Absent, Absent, MaxCharts, 1),
   StoreOf(U2, U2, 1, 0)}

\* A clause list that only looks at the field patientId.
PatientClausePatientIdOnly(patientIds) ==
  {[field |-> "patientId", value |-> id] : id \in patientIds}

\* patientIds.flatMap(id => [{ patientId: id }, { patientUid: id }])
PatientClause(patientIds) ==
  {[field |-> "patientId", value |-> id] : id \in patientIds}
  \cup {[field |-> "patientUid", value |-> id] : id \in patientIds}

\* A document matches { $or: clauses }.
MatchesOr(doc, clauses) == \E cl \in clauses : doc[cl.field] = cl.value

\* .find({ $or: clauses, [labRequestId] }).toArray(): the documents found,
\* or an error: MongoDB rejects an empty $or array.
Find(recs, coll, clauses, labId) ==
  IF clauses = {}
  THEN [failed |-> TRUE, docs |-> {}]
  ELSE [failed |-> FALSE,
        docs |-> {d \in recs :
                    /\ d.coll = coll
                    /\ MatchesOr(d, clauses)
                    /\ labId # Null => d.labRequestId = labId}]

\* What a list request is answered with.
Response(req, status, docs, o) ==
  [route |-> req.route, patientId |-> req.patientId, uid |-> req.uid,
   profile |-> req.profile, labId |-> req.labId, failing |-> req.failing,
   status |-> status, docs |-> docs, resolved |-> o.ids, lookups |-> o.lookups,
   time |-> now]

\* router.get('/:patientId/prescriptions' | '/lab_requests' |
\* '/lab_requests/:labId/results'): resolve the ids, build the query, find.
ListHandler(store, recs, req) ==
  {IF o.threw THEN Response(req, 500, {}, o)
   ELSE LET found == Find(recs, CollectionOf(req.route), PatientClause(o.ids),
                          IF req.route = "lab_results" THEN req.labId ELSE Null)
        IN IF found.failed THEN Response(req, 500, {}, o)
           ELSE Response(req, 200, found.docs, o)
   : o \in ResolvePatientIds(store, req.patientId, req.uid, req.profile, req.failing)}

\* The requests made: a patient (uid U1) or a doctor (uid U1), for patientId
\* U1, C1 or a blank, with the chart store up or down.
ListRequests ==
  {[route |-> r, patientId |-> p, uid |-> U1,
    profile |-> [role |-> role, patientId |-> Undefined, phone |-> Undefined],
    labId |-> l, failing |-> f] :
     r \in Routes, p \in {U1, C1, <<Space>>}, role \in {RolePatient, RoleDoctor},
     l \in {LabA}, f \in {{}, LookupKinds}}

InitRoutes ==
  /\ charts \in RouteStores
  /\ pc = "idle" /\ args = NoArgs /\ outcome = NoOutcome
  /\ now = 0 /\ cache = {} /\ calls = <<>>
  /\ records = AllRecords
  /\ requests = <<>>

\* One list request, from the resolution to the response.
ListRequest ==
  /\ Len(requests) < MaxRequests
  /\ \E req \in ListRequests :
       \E resp \in ListHandler(charts, records, req) :
         requests' = Append(requests, resp)
  /\ UNCHANGED <<charts, pc, args, outcome, now, cache, calls, records>>

NextRoutes == ListRequest

SpecRoutes == InitRoutes /\ [][NextRoutes]_vars

\* C11: the list routes of prescriptions, lab requests and lab results return
\* exactly the records of their collection whose patientId or patientUid is
\* one of the resolved ids (lab results: and whose labRequestId is the
\* requested one); every such record and no other.
C11_ListSelectsResolved ==
  \A i \in 1..Len(requests) :
    requests[i].docs =
      {d \in records :
         /\ d.coll = CollectionOf(requests[i].route)
         /\ (d.patientId \in requests[i].resolved \/ d.patientUid \in requests[i].resolved)
         /\ requests[i].route = "lab_results" => d.labRequestId = requests[i].labId}

\* A patient lists the lab results of chart C1 and gets records filed under
\* the chart id, under their uid, and under patientUid only.
C11_Witness ==
  \E i \in 1..Len(requests) :
    /\ requests[i].route = "lab_results" /\ requests[i].status = 200
    /\ requests[i].resolved = {C1, U1}
    /\ \E d \in requests[i].docs : d.patientId = C1 /\ d.patientUid = Null
    /\ \E d \in requests[i].docs : d.patientId = Null /\ d.patientUid = U1
    /\ \A d \in requests[i].docs : d.labRequestId = LabA
    /\ \E d \in records \ requests[i].docs : d.coll = "lab_results" /\ d.labRequestId = LabA

-----------------------------------------------------------------------------
(* resolvePatientIdsCached and the module's patientIdCache *)

\* Most resolvePatientIdsCached calls in one behaviour.
MaxCalls == 2

\* const CACHE_TTL = 5 * 60 * 1000 (milliseconds)
CACHE_TTL == 5 * 60 * 1000

\* if (patientIdCache.size > 1000)
SweepThreshold == 1000

\* The values Date.now() takes: the start, and the millisecond before, at and
\* after the end of the first TTL period.
TimePoints == {0, CACHE_TTL - 1, CACHE_TTL, CACHE_TTL + 1}

\* const cacheKey = `${userUid}:${requestedId}`
CacheKey(userUid, requestedId) == userUid \o <<":">> \o requestedId

\* { ids, timestamp }
Entry(ids, timestamp) == [ids |-> ids, timestamp |-> timestamp]

\* The Map patientIdCache is the set of its [key, value] pairs, one per key.
Pair(key, entry) == [key |-> key, value |-> entry]

\* patientIdCache.has(key)
CacheHas(map, key) == \E e \in map : e.key = key

\* What patientIdCache.get(key) is read as when the key is not in the map.
NoEntry == Entry({}, 0)

\* patientIdCache.get(key)
CacheGet(map, key) ==
  IF CacheHas(map, key) THEN (CHOOSE e \in map : e.key = key).value ELSE NoEntry

\* patientIdCache.size
CacheSize(map) == Cardinality(map)

\* patientIdCache.set(key, entry), unless the key already has an entry.
CacheSetIfAbsent(map, key, entry) ==
  IF CacheHas(map, key) THEN map ELSE map \cup {Pair(key, entry)}

\* patientIdCache.set(key, entry)
CacheSet(map, key, entry) ==
  {e \in map : e.key # key} \cup {Pair(key, entry)}

\* An entry is still served when its age is exactly the TTL.
IsFreshUpToTTL(map, key, t) ==
  CacheHas(map, key) /\ t - CacheGet(map, key).timestamp <= CACHE_TTL

\* An entry is served whatever its age.
IsFreshAlways(map, key, t) == CacheHas(map, key)

\* No entry is ever served.
IsFreshNever(map, key, t) == FALSE

\* cached && Date.now() - cached.timestamp < CACHE_TTL
IsFresh(map, key, t) ==
  CacheHas(map, key) /\ t - CacheGet(map, key).timestamp < CACHE_TTL

\* No clean-up at all.
SweepNever(map, t) == map

\* A clean-up that runs at every store, whatever the size of the map.
SweepAlways(map, t) ==
  {e \in map : ~(t - e.value.timestamp > CACHE_TTL)}

\* if (patientIdCache.size > 1000) delete every entry with
\* now - value.timestamp > CACHE_TTL
Sweep(map, t) ==
  IF CacheSize(map) > SweepThreshold
  THEN {e \in map : ~(t - e.value.timestamp > CACHE_TTL)}
  ELSE map

\* A resolvePatientIdsCached call: its arguments, where it stands, when it
\* started (t0, and began: how many stores into the map had been made by
\* then), what patientIdCache.get gave it (found: an entry; seen: that entry),
\* whether it called resolvePatientIds, what it returned and when (tEnd), and
\* stored: the how-manieth store into the map it made (0: none).
Call(in, at, t0, began, found, seen, invoked, result, lookups, tEnd, stored) ==
  [requestedId |-> in.requestedId, userUid |-> in.userUid, profile |-> in.profile,
   failing |-> in.failing, at |-> at, t0 |-> t0, began |-> began, found |-> found,
   seen |-> seen, invoked |-> invoked, result |-> result, lookups |-> lookups,
   tEnd |-> tEnd, stored |-> stored]

KeyOf(c) == CacheKey(c.userUid, c.requestedId)

\* Uids and requested ids with the separator in them: the pairs
\* ('U:1', 'C1') and ('U', '1:C1').
UColon1 == <<"U", ":", "1">>
UOnly == <<"U">>
OneColonC1 == <<"1", ":", "C", "1">>

ProfileOf(role) == [role |-> role, patientId |-> Undefined, phone |-> Undefined]

\* The calls made in SpecCache: ('U:1', 'C1') as a patient and as a doctor,
\* and ('U', '1:C1') as a doctor, with the chart store up.
CachedCalls ==
  {[requestedId |-> p[2], userUid |-> p[1], profile |-> ProfileOf(p[3]), failing |-> {}] :
     p \in {<<UColon1, C1, RolePatient>>, <<UColon1, C1, RoleDoctor>>,
            <<UOnly, OneColonC1, RoleDoctor>>}}

\* The chart store the cached calls run against: chart C1 of account U2, or
\* no chart at all.
CacheStores == {StoreOf(U2, Absent, 0, 0), StoreOf(Absent, Absent, 0, 0)}

\* How many calls have stored into the map so far.
StoresSoFar == Cardinality({i \in DOMAIN calls : calls[i].stored > 0})

\* resolvePatientIdsCached up to its await: the key, the cache read, and
\* either the cached ids returned or resolvePatientIds called.
CachedBegin(inputs) ==
  /\ Len(calls) < MaxCalls
  /\ \E in \in inputs :
       LET key == CacheKey(in.userUid, in.requestedId)
           found == CacheHas(cache, key)
           seen == CacheGet(cache, key)
       IN calls' = Append(calls,
            IF IsFresh(cache, key, now)
            THEN Call(in, "done", now, StoresSoFar, found, seen, FALSE, seen.ids, {}, now, 0)
            ELSE Call(in, "pending", now, StoresSoFar, found, seen, TRUE, {}, {}, 0, 0))
  /\ UNCHANGED <<charts, pc, args, outcome, now, cache, records, requests>>

\* resolvePatientIdsCached after its await: resolvePatientIds has settled,
\* the entry is stored with the current time, the map is cleaned up and the
\* ids are returned.
CachedSettle ==
  \E i \in DOMAIN calls :
    /\ calls[i].at = "pending"
    /\ \E o \in ResolvePatientIds(charts, calls[i].requestedId, calls[i].userUid,
                                  calls[i].profile, calls[i].failing) :
         /\ ~o.threw
         /\ cache' = Sweep(CacheSet(cache, KeyOf(calls[i]), Entry(o.ids, now)), now)
         /\ calls' = [calls EXCEPT ![i] =
              [@ EXCEPT !.at = "done", !.result = o.ids, !.lookups = o.lookups,
                        !.tEnd = now, !.stored = StoresSoFar + 1]]
    /\ UNCHANGED <<charts, pc, args, outcome, now, records, requests>>

\* Time passes.
Tick ==
  /\ \E t \in TimePoints : t > now /\ now' = t
  /\ UNCHANGED <<charts, pc, args, outcome, cache, calls, records, requests>>

\* Somebody writes to the collection 'patients'.
ChangeCharts ==
  /\ \E st \in CacheStores : st # charts /\ charts' = st
  /\ UNCHANGED <<pc, args, outcome, now, cache, calls, records, requests>>

InitCache ==
  /\ charts \in CacheStores
  /\ pc = "idle" /\ args = NoArgs /\ outcome = NoOutcome
  /\ now = 0
  /\ cache = {}
  /\ calls = <<>>
  /\ records = {}
  /\ requests = <<>>

NextCache == CachedBegin(CachedCalls) \/ CachedSettle \/ Tick \/ ChangeCharts

SpecCache == InitCache /\ [][NextCache]_vars

-----------------------------------------------------------------------------
(* Vocabulary of the cache claims *)

\* Call i read an entry younger than the TTL.
SawFresh(i) ==
  calls[i].found /\ calls[i].t0 - calls[i].seen.timestamp < CACHE_TTL

\* Call i read no entry, or an entry older than the TTL.
SawNoneOrOld(i) ==
  ~calls[i].found \/ calls[i].t0 - calls[i].seen.timestamp > CACHE_TTL

SamePair(i, j) ==
  /\ calls[i].userUid = calls[j].userUid
  /\ calls[i].requestedId = calls[j].requestedId

\* Call i had returned when call j started.
ReturnedBefore(i, j) ==
  /\ i < j
  /\ calls[i].at = "done"
  /\ calls[i].invoked => calls[i].stored <= calls[j].began

\* The sets resolvePatientIds returns for the arguments of call i, in any
\* state the chart store takes.
ResolveResults(i) ==
  {o.ids : o \in UNION {ResolvePatientIds(st, calls[i].requestedId, calls[i].userUid,
                                         calls[i].profile, calls[i].failing) :
                         st \in CacheStores}}

\* C12: a resolvePatientIdsCached call that finds an entry of its
\* (userUid, requestedId) pair with now - timestamp < CACHE_TTL returns the
\* stored ids without calling resolvePatientIds; so of two calls for the same
\* pair, the second starting after the first returned and less than the TTL
\* after the first started, at most one calls resolvePatientIds.
C12_CacheHit ==
  /\ \A i \in DOMAIN calls :
       SawFresh(i) =>
         /\ calls[i].at = "done"
         /\ ~calls[i].invoked
         /\ calls[i].result = calls[i].seen.ids
  /\ \A i, j \in DOMAIN calls :
       (SamePair(i, j) /\ ReturnedBefore(i, j)
          /\ calls[j].t0 - calls[i].t0 < CACHE_TTL)
       => ~(calls[i].invoked /\ calls[j].invoked)

\* Two calls for the same pair one after the other inside the TTL: the first
\* resolved and stored, the second was served from the map.
C12_Witness ==
  \E i, j \in DOMAIN calls :
    /\ SamePair(i, j) /\ ReturnedBefore(i, j)
    /\ calls[i].invoked
    /\ calls[j].t0 = CACHE_TTL - 1
    /\ SawFresh(j) /\ ~calls[j].invoked
    /\ calls[j].result = calls[i].result

\* Call i goes from pending to done in this step.
Settles(i) ==
  /\ i \in DOMAIN calls
  /\ calls[i].at = "pending"
  /\ calls'[i].at = "done"

\* C13: a resolvePatientIdsCached call that finds no entry for its key, or an
\* entry older than the TTL, calls resolvePatientIds; when the resolver has
\* settled, the map holds under the key the new ids with the current time,
\* and the call returns the ids the resolver gives for the chart store as it
\* is; and no call is ever served an entry whose TTL has elapsed.
C13_MissOrStale ==
  /\ [](\A i \in DOMAIN calls :
          /\ SawNoneOrOld(i) => calls[i].invoked
          /\ (calls[i].at = "done" /\ ~calls[i].invoked)
               => calls[i].t0 - calls[i].seen.timestamp < CACHE_TTL)
  /\ [][\A i \in 1..MaxCalls :
          Settles(i) =>
            /\ calls'[i].result \in
                 {o.ids : o \in ResolvePatientIds(charts, calls[i].requestedId,
                                    calls[i].userUid, calls[i].profile, calls[i].failing)}
            /\ Pair(KeyOf(calls[i]), Entry(calls'[i].result, now)) \in cache'
            /\ calls'[i].tEnd = now]_vars

\* A call found an entry older than the TTL, stored before the chart store
\* changed, resolved again and the map now holds its different, newer result.
C13_Witness ==
  \E i \in DOMAIN calls :
    /\ calls[i].found
    /\ calls[i].t0 - calls[i].seen.timestamp > CACHE_TTL
    /\ calls[i].at = "done" /\ calls[i].invoked
    /\ calls[i].result # calls[i].seen.ids
    /\ Pair(KeyOf(calls[i]), Entry(calls[i].result, calls[i].tEnd)) \in cache

\* C14: two resolvePatientIdsCached calls whose (userUid, requestedId) pairs
\* differ in either component never use the same cache key, whatever
\* characters the ids contain.
C14_KeyDisambiguates ==
  \A i, j \in DOMAIN calls :
    ~SamePair(i, j) => KeyOf(calls[i]) # KeyOf(calls[j])

\* No earlier call of another (userUid, requestedId) pair used the key of
\* call j.
KeyOwnPair(j) ==
  \A i \in 1..(j - 1) : KeyOf(calls[i]) = KeyOf(calls[j]) => SamePair(i, j)

\* C15: whatever resolvePatientIdsCached calls came before, a call returns a
\* set that resolvePatientIds returns for the same requestedId, userUid and
\* profile (in some state the chart store has been in), also when an earlier
\* call for the same (userUid, requestedId) came with another profile.
C15_CachedIsResolve ==
  \A j \in DOMAIN calls :
    (calls[j].at = "done" /\ KeyOwnPair(j)) => calls[j].result \in ResolveResults(j)

\* The calls that have stored an entry under the key.
Storers(key) ==
  {i \in DOMAIN calls : KeyOf(calls[i]) = key /\ calls[i].stored > 0}

\* The one of them that stored last.
LastStorer(key) ==
  CHOOSE l \in Storers(key) : \A i \in Storers(key) : calls[i].stored <= calls[l].stored

\* C18: with resolvePatientIdsCached calls for one key running at the same
\* time, every call that does not find an entry younger than the TTL calls
\* resolvePatientIds itself; every such call, once done, has stored and
\* returns a set resolvePatientIds gives for its own arguments; the map holds
\* one whole entry per key, and under a key that calls have stored to, the
\* ids and the time of the call that stored last.
C18_ConcurrentCalls ==
  /\ \A i \in DOMAIN calls : ~SawFresh(i) => calls[i].invoked
  /\ \A i \in DOMAIN calls :
       (calls[i].invoked /\ calls[i].at = "done")
       => calls[i].stored > 0 /\ calls[i].result \in ResolveResults(i)
  /\ \A e, f \in cache : e.key = f.key => e = f
  /\ \A e \in cache :
       /\ Storers(e.key) # {}
       /\ e.value = Entry(calls[LastStorer(e.key)].result, calls[LastStorer(e.key)].tEnd)
  /\ \A i \in DOMAIN calls : calls[i].stored > 0 => CacheHas(cache, KeyOf(calls[i]))

\* Two calls for one key were pending at the same time; both resolved, at
\* different times and with different results, and the map holds what the
\* later storer stored.
C18_Witness ==
  \E i, j \in DOMAIN calls :
    /\ i < j /\ KeyOf(calls[i]) = KeyOf(calls[j])
    /\ calls[i].invoked /\ calls[j].invoked
    /\ calls[i].at = "done" /\ calls[j].at = "done"
    /\ calls[j].began < calls[i].stored
    /\ calls[i].stored < calls[j].stored
    /\ calls[i].tEnd # calls[j].tEnd
    /\ calls[i].result # calls[j].result
    /\ CacheGet(cache, KeyOf(calls[j])) = Entry(calls[j].result, calls[j].tEnd)

-----------------------------------------------------------------------------
(* The map near its clean-up threshold *)

DigitChar == <<"0", "1", "2", "3", "4", "5", "6", "7", "8", "9">>

\* String(n)
RECURSIVE Decimal(_)
Decimal(n) ==
  IF n < 10 THEN <<DigitChar[n + 1]>>
  ELSE Decimal(n \div 10) \o <<DigitChar[(n % 10) + 1]>>

\* The key under which account 'F<i>' asked for chart C1.
FillerKey(i) == CacheKey(<<"F">> \o Decimal(i), C1)

\* A map with n entries of earlier calls, the first nOld of them stored at
\* time 0 and the others at time CACHE_TTL - 1.
Filled(n, nOld) ==
  {Pair(FillerKey(i), Entry({C1}, IF i <= nOld THEN 0 ELSE CACHE_TTL - 1)) : i \in 1..n}

\* The calls made in SpecSweep: two accounts asking for chart C1 as a doctor,
\* each with a key of its own.
SweepCalls ==
  {[requestedId |-> C1, userUid |-> u, profile |-> ProfileOf(RoleDoctor), failing |-> {}] :
     u \in {U1, U2}}

\* The service has run for CACHE_TTL - 1 ms and the map holds one entry less
\* than the threshold, or as many, with no or one entry stored at the start.
InitSweep ==
  /\ charts = StoreOf(Absent, Absent, 0, 0)
  /\ pc = "idle" /\ args = NoArgs /\ outcome = NoOutcome
  /\ now = CACHE_TTL - 1
  /\ \E n \in {SweepThreshold - 1, SweepThreshold}, nOld \in {0, 1} :
       cache = Filled(n, nOld)
  /\ calls = <<>>
  /\ records = {}
  /\ requests = <<>>

NextSweep == CachedBegin(SweepCalls) \/ CachedSettle \/ Tick

SpecSweep == InitSweep /\ [][NextSweep]_vars

\* C16: in the step in which a resolvePatientIdsCached call stores its
\* entry: if the map then has more than 1000 entries, the step leaves no
\* entry with now - timestamp > CACHE_TTL and leaves the entry just stored;
\* if it has at most 1000, the step removes or changes no other entry.
C16_PassiveEviction ==
  [][\A i \in 1..MaxCalls :
       Settles(i) =>
         LET key == KeyOf(calls[i])
             others == {e \in cache : e.key # key}
         IN /\ Pair(key, Entry(calls'[i].result, now)) \in cache'
            /\ IF CacheSize(others) + 1 > SweepThreshold
               THEN \A e \in cache' : ~(now - e.value.timestamp > CACHE_TTL)
               ELSE others \subseteq cache']_vars

\* A store took the map over the threshold after the TTL of entry 'F1:C1' had
\* elapsed: that entry is gone, the entry of the call is there.
C16_Witness ==
  \E i \in DOMAIN calls :
    /\ calls[i].at = "done" /\ calls[i].invoked
    /\ calls[i].tEnd = CACHE_TTL + 1
    /\ CacheHas(cache, KeyOf(calls[i]))
    /\ ~CacheHas(cache, FillerKey(1))
    /\ CacheSize(cache) >= SweepThreshold

\* C17: the map never holds more than one entry above the threshold of 1000.
C17_Bounded == CacheSize(cache) <= SweepThreshold + 1

-----------------------------------------------------------------------------
(* The list routes and the cache; idempotence *)

\* Requests i and j come from the same caller for the same patientId.
SameCallerAndPatient(i, j) ==
  /\ requests[i].uid = requests[j].uid
  /\ requests[i].profile = requests[j].profile
  /\ requests[i].patientId = requests[j].patientId

\* C19: of two list requests by the same caller for the same patientId less
\* than CACHE_TTL apart, at most one sends lookups to the chart store.
C19_RoutesUseCache ==
  \A i, j \in 1..Len(requests) :
    (i < j /\ SameCallerAndPatient(i, j)
       /\ requests[j].time - requests[i].time < CACHE_TTL)
    => ~(requests[i].lookups # {} /\ requests[j].lookups # {})

-----------------------------------------------------------------------------
(* The resolver adds nothing beyond its rules *)

\* The charts the rules let a lookup of this call match: by phone for a
\* patient; by the fields id and userId and by document id against the
\* requested id in self-access; by the fields against the caller's uid for a
\* patient asking for another id; by the fields against the requested id for
\* staff.
MatchedCharts ==
  IF PatientCaller
  THEN (IF args.profile.phone = Undefined THEN {}
        ELSE Matching(charts, "phone", Trim(args.profile.phone)))
       \cup (IF args.userUid = args.requestedId
             THEN Matching(charts, "id", args.requestedId)
                  \cup Matching(charts, "userId", args.requestedId)
                  \cup ({args.requestedId} \cap DOMAIN charts)
             ELSE Matching(charts, "id", args.userUid)
                  \cup Matching(charts, "userId", args.userUid))
  ELSE Matching(charts, "id", args.requestedId)
       \cup Matching(charts, "userId", args.requestedId)

\* The userId of the chart whose document id is the requested id.
RequestedChartUserId ==
  IF args.requestedId \in DOMAIN charts /\ charts[args.requestedId].userId # Undefined
  THEN {charts[args.requestedId].userId} ELSE {}

\* C21: every id resolvePatientIds returns is the requested id, the uid of a
\* patient caller, the trimmed linked patientId, the document id of a chart
\* matched by a lookup of the caller's case, or the userId of the chart whose
\* id is the requested id; a patient asking for their own uid U1, with no
\* linked id and no chart matching, gets exactly {U1}.
C21_NothingBeyondRules ==
  Returned =>
    /\ outcome.ids \subseteq InputDerivedIds \cup MatchedCharts \cup RequestedChartUserId
    /\ (PatientCaller /\ args.userUid = U1 /\ args.requestedId = U1
          /\ ~HasLinkedId /\ MatchedCharts = {})
       => outcome.ids = {U1}

\* A patient asked for their own uid with the store up, no chart matched and
\* the three lookups of self-access were sent: the result is {U1}.
C21_Witness ==
  /\ Returned
  /\ PatientCaller /\ args.userUid = U1 /\ args.requestedId = U1
  /\ ~HasLinkedId /\ MatchedCharts = {}
  /\ args.failing = {}
  /\ DocRead(U1) \in outcome.lookups
  /\ Cardinality(FieldSearches) = 2
  /\ outcome.ids = {U1}

-----------------------------------------------------------------------------
(* The app's mounts and requireAuth (app.js, middleware/auth.js) *)

Bearer == <<"B", "e", "a", "r", "e", "r", Space>>
BearerLower == <<"b", "e", "a", "r", "e", "r", Space>>

\* An ID token Firebase verifies (it decodes to uid U1) and one it rejects.
TokenGood == <<"t", "1">>
TokenBad == <<"x">>

\* The Authorization headers sent: none, a verified token, a rejected token,
\* a token with no scheme and one with the scheme in lower case.
AuthHeaders ==
  {Undefined, Bearer \o TokenGood, Bearer \o TokenBad, TokenGood, BearerLower \o TokenGood}

\* String.prototype.startsWith
StartsWith(s, prefix) ==
  Len(s) >= Len(prefix) /\ SubSeq(s, 1, Len(prefix)) = prefix

\* header.replace('Bearer ', '') of a header that starts with 'Bearer '
StripBearer(header) == SubSeq(header, Len(Bearer) + 1, Len(header))

\* admin.auth().verifyIdToken(token): the decoded uid, or Undefined when it
\* rejects.
VerifyIdToken(token) == IF token = TokenGood THEN U1 ELSE Undefined

\* requireAuth: 401 'Missing token', 401 'Invalid token', or next() with
\* req.user set.
RequireAuth(header) ==
  IF header = Undefined \/ ~StartsWith(header, Bearer)
  THEN [status |-> 401, next |-> FALSE, uid |-> Undefined]
  ELSE IF VerifyIdToken(StripBearer(header)) = Undefined
       THEN [status |-> 401, next |-> FALSE, uid |-> Undefined]
       ELSE [status |-> 0, next |-> TRUE, uid |-> VerifyIdToken(StripBearer(header))]

\* The paths app.js serves: the health router, the root endpoint and the
\* three mounts of the API routers.
Mounts == {"/health", "/", "/telemedicine", "/agora", "/patients"}

\* The routers that start with router.use(requireAuth): telemedicine, and
\* the patient notes router, the first one mounted at /patients.
UsesRequireAuth(mount) == mount \in {"/telemedicine", "/patients"}

\* POST /agora/rtc-token: 500 without the env vars, 400 without an
\* appointmentId or a positive uid, else the token.
RtcToken(env, appointmentId, uid) ==
  IF ~env THEN 500
  ELSE IF Trim(appointmentId) = Empty THEN 400
  ELSE IF uid <= 0 THEN 400
  ELSE 200

\* What a handler behind requireAuth and attachProfile may answer.
HandlerStatuses == {200, 400, 403, 404, 500}

\* A request through the app: who answered it, with which status, and whether
\* the endpoint's handler ran.
Served(mount, header, by, status) ==
  [mount |-> mount, header |-> header, by |-> by, status |-> status,
   ran |-> by = "handler"]

\* app.js dispatches a request to its mount. hasProfile: users/{uid} exists.
Serve(mount, header, hasProfile, env, appointmentId, uid) ==
  IF UsesRequireAuth(mount)
  THEN LET auth == RequireAuth(header)
       IN IF ~auth.next THEN {Served(mount, header, "requireAuth", auth.status)}
          ELSE IF ~hasProfile THEN {Served(mount, header, "attachProfile", 403)}
          ELSE {Served(mount, header, "handler", st) : st \in HandlerStatuses}
  ELSE IF mount = "/agora"
       THEN {Served(mount, header, "handler", RtcToken(env, appointmentId, uid))}
       ELSE {Served(mount, header, "handler", 200)}

InitAuth ==
  /\ charts = StoreOf(Absent, Absent, 0, 0)
  /\ pc = "idle" /\ args = NoArgs /\ outcome = NoOutcome
  /\ now = 0 /\ cache = {} /\ calls = <<>>
  /\ records = {}
  /\ requests = <<>>

\* One HTTP request, from app.js to the response.
HttpRequest ==
  /\ Len(requests) < MaxRequests
  /\ \E mount \in Mounts, header \in AuthHeaders, hasProfile \in BOOLEAN,
        env \in BOOLEAN, appointmentId \in {Empty, <<"A">>}, uid \in {0, 1} :
       \E r \in Serve(mount, header, hasProfile, env, appointmentId, uid) :
         requests' = Append(requests, r)
  /\ UNCHANGED <<charts, pc, args, outcome, now, cache, calls, records>>

NextAuth == HttpRequest

SpecAuth == InitAuth /\ [][NextAuth]_vars

\* The header carries 'Bearer ' and a token Firebase verifies.
ValidBearer(header) ==
  /\ header # Undefined
  /\ StartsWith(header, Bearer)
  /\ VerifyIdToken(StripBearer(header)) # Undefined

\* C22: a request to any endpoint outside /health without a valid bearer
\* token is answered 401 and the endpoint's handler does not run.
C22_AuthRequired ==
  \A i \in 1..Len(requests) :
    (requests[i].mount # "/health" /\ ~ValidBearer(requests[i].header))
    => requests[i].status = 401 /\ ~requests[i].ran

-----------------------------------------------------------------------------
(* Who may read a patient's nested resources *)

\* The ids a patient's own records are filed under: the uid, and the charts
\* that carry the uid in the field userId or id.
OwnIds(uid) ==
  {uid} \cup Matching(charts, "userId", uid) \cup Matching(charts, "id", uid)

\* C23: a caller with role patient whose uid is not the :patientId of the
\* path gets from a list route no record of another patient: every record
\* returned is filed under the caller's uid or one of the caller's charts.
C23_PatientReadsOwnOnly ==
  \A i \in 1..Len(requests) :
    (requests[i].profile.role = RolePatient
       /\ requests[i].uid # requests[i].patientId)
    => \A d \in requests[i].docs :
         d.patientId \in OwnIds(requests[i].uid)
         \/ d.patientUid \in OwnIds(requests[i].uid)

-----------------------------------------------------------------------------
(* The cache during and after a chart-store outage *)

\* The calls made in SpecOutage: patient U1 asking for their own records,
\* with the chart store up or rejecting every lookup.
OutageCalls ==
  {[requestedId |-> U1, userUid |-> U1, profile |-> ProfileOf(RolePatient), failing |-> f] :
     f \in {{}, LookupKinds}}

\* Chart C1 belongs to account U1.
InitOutage ==
  /\ charts = StoreOf(U1, Absent, 0, 0)
  /\ pc = "idle" /\ args = NoArgs /\ outcome = NoOutcome
  /\ now = 0
  /\ cache = {}
  /\ calls = <<>>
  /\ records = {}
  /\ requests = <<>>

NextOutage == CachedBegin(OutageCalls) \/ CachedSettle \/ Tick

SpecOutage == InitOutage /\ [][NextOutage]_vars

\* What resolvePatientIds returns for the arguments of call i with the store
\* up.
FullIds(i) ==
  {o.ids : o \in ResolvePatientIds(charts, calls[i].requestedId, calls[i].userUid,
                                   calls[i].profile, {})}

\* Call i resolved while every lookup was rejected.
Degraded(i) ==
  /\ calls[i].invoked /\ calls[i].at = "done"
  /\ calls[i].failing # {}
  /\ calls[i].result \notin FullIds(i)

\* C24: resolvePatientIdsCached stores what resolvePatientIds returns, also
\* the smaller set computed while the lookups were failing; a later call for
\* the key that finds the entry younger than the TTL returns the stored set
\* although the store is up again, and a call that finds it at an age of the
\* TTL or more, with the store up, returns the full set.
C24_DegradedCached ==
  /\ [](\A j \in DOMAIN calls :
          /\ SawFresh(j) => calls[j].at = "done" /\ calls[j].result = calls[j].seen.ids
          /\ (calls[j].at = "done" /\ calls[j].failing = {} /\ calls[j].found
                /\ calls[j].t0 - calls[j].seen.timestamp >= CACHE_TTL)
             => calls[j].result \in FullIds(j))
  /\ [][\A i \in 1..MaxCalls :
          Settles(i) => Pair(KeyOf(calls[i]), Entry(calls'[i].result, now)) \in cache']_vars

\* A call resolved during the outage and stored {U1}; a call made one
\* millisecond before the TTL, with the store up, was served {U1} and not
\* {U1, C1}.
C24_Witness ==
  \E i, j \in DOMAIN calls :
    /\ i < j
    /\ Degraded(i) /\ calls[i].tEnd = 0
    /\ calls[j].failing = {} /\ calls[j].t0 = CACHE_TTL - 1
    /\ calls[j].at = "done" /\ ~calls[j].invoked
    /\ calls[j].result = calls[i].result
    /\ calls[j].result = {U1}
    /\ FullIds(j) = {{U1, C1}}

-----------------------------------------------------------------------------
(* The boundary of freshness and the boundary of the clean-up *)

\* The clean-up has just run: the last store into the map was made at this
\* very millisecond and the map is still over the threshold.
JustSwept ==
  /\ CacheSize(cache) > SweepThreshold
  /\ \E i \in DOMAIN calls :
       calls[i].stored > 0 /\ calls[i].stored = StoresSoFar /\ calls[i].tEnd = now

\* C25: the clean-up removes every entry a read treats as stale: right after
\* it has run no entry with now - timestamp >= CACHE_TTL is left.
C25_SameBoundary ==
  JustSwept => \A e \in cache : now - e.value.timestamp < CACHE_TTL

\* C25, as the code has it: right after the clean-up has run no entry with
\* now - timestamp > CACHE_TTL is left, and a call that finds an entry with
\* now - timestamp >= CACHE_TTL resolves again; an entry of age exactly
\* CACHE_TTL is treated as absent by a read but left in place by the clean-up.
C25_BoundariesOffByOne ==
  /\ JustSwept => \A e \in cache : ~(now - e.value.timestamp > CACHE_TTL)
  /\ \A j \in DOMAIN calls :
       (calls[j].found /\ calls[j].t0 - calls[j].seen.timestamp >= CACHE_TTL)
       => calls[j].invoked

\* The clean-up ran at the moment entry 'F1:C1' was exactly CACHE_TTL old:
\* the entry is still in the map, which holds 1001 entries.
C25_Witness ==
  /\ JustSwept
  /\ now = CACHE_TTL
  /\ CacheGet(cache, FillerKey(1)) = Entry({C1}, 0)
  /\ CacheHas(cache, FillerKey(1))
  /\ CacheSize(cache) = SweepThreshold + 1

-----------------------------------------------------------------------------
(* PATCH /patients/:patientId/prescriptions/:rxId (prescriptions.routes.js) *)

RoleAdmin == <<"a", "d", "m", "i", "n">>
RoleNurse == <<"n", "u", "r", "s", "e">>

\* authz.js: role === 'admin', role === 'doctor'
IsAdmin(profile) == profile.role = RoleAdmin
IsDoctor(profile) == profile.role = RoleDoctor

\* guards.js requireDoctorOrAdmin: next() or 403 'Doctor only'.
RequireDoctorOrAdmin(profile) == IsAdmin(profile) \/ IsDoctor(profile)

\* 30 * 60 * 1000 and 24 * 60 * 60 * 1000 (milliseconds)
EditWindowMs == 30 * 60 * 1000
StatusWaitMs == 24 * 60 * 60 * 1000

\* const mutables = ['medication', 'dosage', 'frequency', 'duration', 'instructions']
Mutables == {"medication", "dosage", "frequency", "duration", "instructions"}

\* const fields = [...mutables, 'status']
PatchFields == Mutables \cup {"status"}

\* Accounts: A1 is an admin, U1 and U2 are doctors, N1 is a nurse.
A1 == <<"A", "1">>
N1 == <<"N", "1">>

\* ObjectId strings: R1 is a stored prescription, R2 is well-formed but not
\* stored, RBad is not an ObjectId.
R1 == <<"R", "1">>
R2 == <<"R", "2">>
RBad == <<"x">>

\* The prescription POST /:patientId/prescriptions stored at time 0 for
\* patient P1, prescribed by doctor U1.
Prescription ==
  [coll |-> "patient_prescriptions", id |-> R1, patientId |-> P1, doctorId |-> U1,
   medication |-> "m0", dosage |-> "d0", status |-> "active",
   createdAt |-> 0, updatedAt |-> 0, updatedBy |-> Null, updatedByName |-> Null,
   isEdited |-> FALSE, editHistory |-> <<>>]

\* The request bodies: nothing, a new medication, a new status, or both.
PatchBodies ==
  {<<>>, [medication |-> "m1"], [status |-> "stopped"],
   [medication |-> "m1", status |-> "stopped"]}

\* The callers: their uid and their profile's role.
PatchCallers ==
  {[uid |-> A1, role |-> RoleAdmin], [uid |-> U1, role |-> RoleDoctor],
   [uid |-> U2, role |-> RoleDoctor], [uid |-> N1, role |-> RoleNurse]}

\* The paths and bodies: every body for the prescription under its patient,
\* and a new status for the prescription under another patient, for an id
\* that is not stored and for an id that is no ObjectId.
PatchInputs ==
  {<<P1, R1, b>> : b \in PatchBodies}
  \cup {<<C1, R1, [status |-> "stopped"]>>,
        <<P1, R2, [status |-> "stopped"]>>,
        <<P1, RBad, [status |-> "stopped"]>>}

\* The ages at which requests are made: on both sides of 30 minutes and of
\* 24 hours.
RxTimePoints ==
  {0, EditWindowMs, EditWindowMs + 1, StatusWaitMs - 1, StatusWaitMs}

\* An edit window that closes at 30 minutes sharp.
Within30mStrict(ageMs) == ageMs < EditWindowMs

\* const within30m = ageMs <= 30 * 60 * 1000
Within30m(ageMs) == ageMs <= EditWindowMs

\* const after24h = ageMs >= 24 * 60 * 60 * 1000
After24h(ageMs) == ageMs >= StatusWaitMs

\* No prescription found.
NoRx == [coll |-> "none"]

\* findOne({ _id, patientId })
FindRx(recs, patientId, rxId) ==
  {d \in recs : d.coll = "patient_prescriptions" /\ d.id = rxId /\ d.patientId = patientId}

\* The update payload: the edit stamp and the fields of the body.
UpdateOf(uid, t, reqBody) ==
  [f \in DOMAIN reqBody \cap PatchFields |-> reqBody[f]]
  @@ [updatedAt |-> t, updatedBy |-> uid, updatedByName |-> uid, isEdited |-> TRUE]

\* updateOne({...}, { $set: update, $push: { editHistory: { ...update } } })
ApplyUpdate(doc, update) ==
  [f \in DOMAIN doc |->
     IF f = "editHistory" THEN Append(doc.editHistory, update)
     ELSE IF f \in DOMAIN update THEN update[f]
     ELSE doc[f]]

\* The status the handler answers for a stored prescription, after the guard.
PatchDecision(existing, uid, role, reqBody, t) ==
  LET lower == ToLowerCase(role)
      isAdmin == lower = RoleAdmin
      isPrescriberRole == lower = RoleDoctor
      isChangingMutable == (DOMAIN reqBody \cap Mutables) # {}
      isChangingStatus == "status" \in DOMAIN reqBody
      ageMs == t - existing.createdAt
      within30m == Within30m(ageMs)
      after24h == After24h(ageMs)
      isPrescriber == Truthy(existing.doctorId) /\ existing.doctorId = uid
  IN IF ~isChangingMutable /\ ~isChangingStatus THEN "noop"
     ELSE IF isAdmin THEN "update"
     ELSE IF ~isPrescriberRole THEN "403"
     ELSE IF isPrescriber
          THEN (IF isChangingMutable /\ ~within30m THEN "403" ELSE "update")
          ELSE IF isChangingMutable THEN "403"
          ELSE IF isChangingStatus /\ ~after24h THEN "403"
          ELSE "update"

\* What a PATCH leaves in the log: the request, the answer, and the
\* prescription as it was found and as it is afterwards (NoRx: none found).
Patched(caller, path, reqBody, t, status, before, after) ==
  [route |-> "patch_rx", uid |-> caller.uid, role |-> caller.role,
   patientId |-> path[1], rxId |-> path[2], body |-> reqBody, time |-> t,
   status |-> status, before |-> before, after |-> after]

\* router.patch('/:patientId/prescriptions/:rxId', requireDoctorOrAdmin, ...)
PatchPrescription ==
  /\ Len(requests) < MaxRequests
  /\ \E caller \in PatchCallers, in \in PatchInputs :
       LET path == <<in[1], in[2]>>
           reqBody == in[3]
           found == FindRx(records, path[1], path[2])
           profile == [role |-> caller.role]
       IN IF ~RequireDoctorOrAdmin(profile)
          THEN /\ requests' = Append(requests,
                    Patched(caller, path, reqBody, now, 403, NoRx, NoRx))
               /\ records' = records
          ELSE IF path[2] = RBad
          THEN /\ requests' = Append(requests,
                    Patched(caller, path, reqBody, now, 500, NoRx, NoRx))
               /\ records' = records
          ELSE IF found = {}
          THEN /\ requests' = Append(requests,
                    Patched(caller, path, reqBody, now, 404, NoRx, NoRx))
               /\ records' = records
          ELSE \E existing \in found :
                 LET decision == PatchDecision(existing, caller.uid, caller.role, reqBody, now)
                     updated == ApplyUpdate(existing, UpdateOf(caller.uid, now, reqBody))
                 IN IF decision = "403"
                    THEN /\ requests' = Append(requests,
                              Patched(caller, path, reqBody, now, 403, existing, existing))
                         /\ records' = records
                    ELSE IF decision = "noop"
                    THEN /\ requests' = Append(requests,
                              Patched(caller, path, reqBody, now, 200, existing, existing))
                         /\ records' = records
                    ELSE /\ requests' = Append(requests,
                              Patched(caller, path, reqBody, now, 200, existing, updated))
                         /\ records' = (records \ {existing}) \cup {updated}
  /\ UNCHANGED <<charts, pc, args, outcome, now, cache, calls>>

\* Time passes.
RxTick ==
  /\ \E t \in RxTimePoints : t > now /\ now' = t
  /\ UNCHANGED <<charts, pc, args, outcome, cache, calls, records, requests>>

InitRx ==
  /\ charts = StoreOf(Absent, Absent, 0, 0)
  /\ pc = "idle" /\ args = NoArgs /\ outcome = NoOutcome
  /\ now = 0 /\ cache = {} /\ calls = <<>>
  /\ records = {Prescription}
  /\ requests = <<>>

NextRx == PatchPrescription \/ RxTick

SpecRx == InitRx /\ [][NextRx]_vars

\* The request of log entry i names a stored prescription and its patient.
NamesStored(i) ==
  \E d \in records :
    /\ d.coll = "patient_prescriptions"
    /\ d.id = requests[i].rxId /\ d.patientId = requests[i].patientId

ChangesDetails(i) == (DOMAIN requests[i].body \cap Mutables) # {}
ChangesStatus(i) == "status" \in DOMAIN requests[i].body

\* The age of the prescription when request i was made.
AgeAt(i) == requests[i].time - Prescription.createdAt

\* Request i was carried out: the fields of its body are stored and the edit
\* is appended to editHistory.
Carried(i) ==
  /\ requests[i].status = 200
  /\ \A f \in DOMAIN requests[i].body : requests[i].after[f] = requests[i].body[f]
  /\ Len(requests[i].after.editHistory) = Len(requests[i].before.editHistory) + 1

\* Request i was refused with 403 and changed nothing.
Refused(i) ==
  /\ requests[i].status = 403
  /\ requests[i].after = requests[i].before

\* C26: for a PATCH that names a stored prescription and changes something:
\* an admin's request is carried out at any age; the prescribing doctor's
\* request is carried out if it changes no medication detail, and else
\* exactly when the prescription is at most 30 minutes old; another doctor's
\* request is refused if it changes a medication detail, and else carried
\* out exactly when the prescription is at least 24 hours old. A step that
\* answers 403 or 404 leaves the collection as it was.
C26_EditPolicy ==
  /\ [](\A i \in 1..Len(requests) :
          (NamesStored(i) /\ (ChangesDetails(i) \/ ChangesStatus(i))) =>
            /\ requests[i].role = RoleAdmin => Carried(i)
            /\ (requests[i].role = RoleDoctor /\ requests[i].uid = Prescription.doctorId) =>
                 IF ChangesDetails(i) /\ AgeAt(i) > EditWindowMs
                 THEN Refused(i) ELSE Carried(i)
            /\ (requests[i].role = RoleDoctor /\ requests[i].uid # Prescription.doctorId) =>
                 IF ChangesDetails(i) \/ AgeAt(i) < StatusWaitMs
                 THEN Refused(i) ELSE Carried(i))
  /\ [][(Len(requests') > Len(requests)
           /\ requests'[Len(requests')].status \in {403, 404})
        => records' = records]_vars

\* The prescribing doctor changed the medication at exactly 30 minutes and
\* was refused one millisecond later; editHistory holds the one edit.
C26_Witness ==
  \E i, j \in 1..Len(requests) :
    /\ i < j
    /\ requests[i].uid = U1 /\ requests[i].role = RoleDoctor
    /\ ChangesDetails(i) /\ AgeAt(i) = EditWindowMs /\ Carried(i)
    /\ requests[i].after.medication = "m1"
    /\ requests[j].uid = U1 /\ ChangesDetails(j) /\ NamesStored(j)
    /\ AgeAt(j) = EditWindowMs + 1 /\ Refused(j)
    /\ \E d \in records : d.id = R1 /\ Len(d.editHistory) = 1

-----------------------------------------------------------------------------
(* Lab requests and their results (lab.routes.js) *)

RolePharmacist == <<"p", "h", "a", "r", "m", "a", "c", "i", "s", "t">>

\* The lab request POST /:patientId/lab_requests stored for patient P1.
LabRequest == [coll |-> "lab_requests", id |-> LabA, patientId |-> P1]

\* function canCreateResult(req)
CanCreateResult(profile) ==
  profile.role \in {RoleAdmin, RoleDoctor, RoleNurse, RolePatient}

\* guards.js requireAdmin
RequireAdmin(profile) == IsAdmin(profile)

\* The document POST .../results inserts; n stands for the new ObjectId.
LabResult(n, patientId, labId, uid) ==
  [coll |-> "lab_results", id |-> n, patientId |-> patientId,
   labRequestId |-> labId, uploadedById |-> uid]

\* What a lab route leaves in the log; removed: the results a delete took
\* out of lab_results.
LabServed(route, caller, patientId, labId, status, removed) ==
  [route |-> route, uid |-> caller.uid, role |-> caller.role,
   patientId |-> patientId, labId |-> labId, status |-> status, removed |-> removed]

\* The callers of the lab routes.
LabCallers ==
  {[uid |-> A1, role |-> RoleAdmin], [uid |-> U1, role |-> RolePatient],
   [uid |-> U2, role |-> RoleDoctor], [uid |-> N1, role |-> RolePharmacist]}

\* The :patientId and :labId of the paths.
LabPatients == {P1, C1}
LabIds == {LabA, LabB}

\* router.post('/:patientId/lab_requests/:labId/results', ...)
UploadResult ==
  /\ Len(requests) < MaxRequests
  /\ \E caller \in LabCallers, patientId \in LabPatients, labId \in LabIds :
       IF ~CanCreateResult([role |-> caller.role])
       THEN /\ requests' = Append(requests,
                 LabServed("post_result", caller, patientId, labId, 403, {}))
            /\ records' = records
       ELSE /\ requests' = Append(requests,
                 LabServed("post_result", caller, patientId, labId, 200, {}))
            /\ records' = records \cup
                 {LabResult(Len(requests) + 1, patientId, labId, caller.uid)}
  /\ UNCHANGED <<charts, pc, args, outcome, now, cache, calls>>

\* deleteMany({ patientId, labRequestId }) on lab_results: what it removes.
AssociatedResults(recs, patientId, labId) ==
  {d \in recs : d.coll = "lab_results" /\ d.patientId = patientId /\ d.labRequestId = labId}

\* router.delete('/:patientId/lab_requests/:labId', requireAdmin, ...)
DeleteLabRequest ==
  /\ Len(requests) < MaxRequests
  /\ \E caller \in LabCallers, patientId \in LabPatients, labId \in LabIds :
       LET found == {d \in records : d.coll = "lab_requests" /\ d.id = labId
                                       /\ d.patientId = patientId}
           gone == AssociatedResults(records, patientId, labId)
       IN IF ~RequireAdmin([role |-> caller.role])
          THEN /\ requests' = Append(requests,
                    LabServed("delete_lab", caller, patientId, labId, 403, {}))
               /\ records' = records
          ELSE IF found = {}
          THEN /\ requests' = Append(requests,
                    LabServed("delete_lab", caller, patientId, labId, 404, {}))
               /\ records' = records
          ELSE /\ requests' = Append(requests,
                    LabServed("delete_lab", caller, patientId, labId, 200, gone))
               /\ records' = (records \ found) \ gone
  /\ UNCHANGED <<charts, pc, args, outcome, now, cache, calls>>

InitLab ==
  /\ charts = StoreOf(Absent, Absent, 0, 0)
  /\ pc = "idle" /\ args = NoArgs /\ outcome = NoOutcome
  /\ now = 0 /\ cache = {} /\ calls = <<>>
  /\ records = {LabRequest}
  /\ requests = <<>>

NextLab == UploadResult \/ DeleteLabRequest

SpecLab == InitLab /\ [][NextLab]_vars

\* Request i is a delete that succeeded, and no result for its lab request
\* was uploaded after it.
LastWordOn(i) ==
  /\ requests[i].route = "delete_lab" /\ requests[i].status = 200
  /\ \A j \in (i + 1)..Len(requests) :
       ~(requests[j].route = "post_result" /\ requests[j].status = 200
           /\ requests[j].labId = requests[i].labId)

\* C27: after a DELETE of a lab request succeeded, no lab_results document
\* with that labRequestId is left, whatever uploads came before it; a DELETE
\* answered 404 removes no result.
C27_CascadeDelete ==
  \A i \in 1..Len(requests) :
    /\ LastWordOn(i) =>
         ~\E d \in records : d.coll = "lab_results" /\ d.labRequestId = requests[i].labId
    /\ (requests[i].route = "delete_lab" /\ requests[i].status = 404)
       => requests[i].removed = {}

-----------------------------------------------------------------------------
(* Telemedicine: completing an appointment (telemedicine.routes.js) *)

\* authz.js: role === 'nurse', isProvider
IsNurse(profile) == profile.role = RoleNurse
IsProvider(profile) == IsDoctor(profile) \/ IsNurse(profile)

\* Dates are milliseconds; a field that is null, and new Date(garbage).
NullDate == -1
InvalidDate == -2
\* durationSeconds: null
NullSeconds == -1

\* The clock moves by this much from one request to the next.
StepMs == 1500

MaxTeleRequests == 3

\* function safeDate(v): the date, or null for a missing or invalid one.
SafeDate(v) == IF v = NullDate \/ v = InvalidDate THEN NullDate ELSE v

\* function computeDurationSeconds(startedAt, endedAt)
ComputeDurationSeconds(startedAt, endedAt) ==
  LET from == SafeDate(startedAt)
      to == SafeDate(endedAt)
  IN IF from = NullDate \/ to = NullDate THEN NullSeconds
     ELSE IF to - from < 0 THEN 0
     ELSE (to - from) \div 1000

AP1 == <<"A", "P", "1">>
AP2 == <<"A", "P", "2">>

\* An appointment of patient U1 assigned to doctor U2.
Appointment(status) ==
  [coll |-> "telemedicine_appointments", id |-> AP1, patientId |-> U1,
   patientUid |-> Null, providerId |-> U2, status |-> status, reason |-> Empty,
   updatedAt |-> 0]

\* The callers of the telemedicine routes.
TeleCallers ==
  {[uid |-> A1, role |-> RoleAdmin], [uid |-> U2, role |-> RoleDoctor],
   [uid |-> N1, role |-> RoleNurse], [uid |-> U1, role |-> RolePatient]}

\* req.body.startedAt of POST /call-logs: absent, or a date still to come.
StartedAtBodies == {NullDate, 9000}

\* The document POST /call-logs inserts (body without endedAt, durationSeconds
\* and status); n stands for the new ObjectId.
CallLog(n, uid, appointmentId, startedAt, at) ==
  [coll |-> "telemedicine_call_logs", id |-> n, providerId |-> uid,
   appointmentId |-> appointmentId,
   startedAt |-> IF startedAt = NullDate THEN at ELSE startedAt,
   endedAt |-> NullDate, durationSeconds |-> NullSeconds,
   status |-> "started", createdAt |-> at]

\* What a telemedicine route leaves in the log; same: the collections are as
\* they were before the request.
TeleServed(route, caller, id, status, same) ==
  [route |-> route, uid |-> caller.uid, role |-> caller.role, id |-> id,
   status |-> status, same |-> same]

\* router.post('/call-logs', ...)
CreateCallLog ==
  /\ Len(requests) < MaxTeleRequests
  /\ \E caller \in TeleCallers, appointmentId \in {AP1, AP2}, startedAt \in StartedAtBodies :
       IF ~(IsAdmin([role |-> caller.role]) \/ IsDoctor([role |-> caller.role]))
       THEN /\ requests' = Append(requests,
                 TeleServed("post_call_log", caller, appointmentId, 403, TRUE))
            /\ records' = records
       ELSE /\ requests' = Append(requests,
                 TeleServed("post_call_log", caller, appointmentId, 200, FALSE))
            /\ records' = records \cup
                 {CallLog(Len(requests) + 1, caller.uid, appointmentId, startedAt, now)}
  /\ now' = now + StepMs
  /\ UNCHANGED <<charts, pc, args, outcome, cache, calls>>

\* findOne({ appointmentId, endedAt: null }, { sort: { createdAt: -1 } })
OpenLogs(recs, appointmentId) ==
  {d \in recs : d.coll = "telemedicine_call_logs" /\ d.appointmentId = appointmentId
                  /\ d.endedAt = NullDate}

LatestOpenLog(recs, appointmentId) ==
  {d \in OpenLogs(recs, appointmentId) :
     \A other \in OpenLogs(recs, appointmentId) : other.createdAt <= d.createdAt}

\* $set: { endedAt: now, durationSeconds, status: 'ended', updatedAt: now }
EndLog(d, at) ==
  [d EXCEPT !.endedAt = at,
            !.durationSeconds = ComputeDurationSeconds(d.startedAt, at),
            !.status = "ended"]

\* router.post('/appointments/:id/complete', ...)
CompleteAppointment ==
  /\ Len(requests) < MaxTeleRequests
  /\ \E caller \in TeleCallers, id \in {AP1, AP2} :
       LET appt == {d \in records : d.coll = "telemedicine_appointments" /\ d.id = id}
           isAssignedProvider ==
             /\ IsProvider([role |-> caller.role])
             /\ \E a \in appt : a.providerId = caller.uid
           active == LatestOpenLog(records, id)
           done == {[a EXCEPT !.status = "completed", !.updatedAt = now] : a \in appt}
           ended == {EndLog(d, now) : d \in active}
       IN IF appt = {}
          THEN /\ requests' = Append(requests, TeleServed("complete", caller, id, 404, TRUE))
               /\ records' = records
          ELSE IF ~(IsAdmin([role |-> caller.role]) \/ isAssignedProvider)
          THEN /\ requests' = Append(requests, TeleServed("complete", caller, id, 403, TRUE))
               /\ records' = records
          ELSE /\ requests' = Append(requests, TeleServed("complete", caller, id, 200, FALSE))
               /\ records' = (((records \ appt) \cup done) \ active) \cup ended
  /\ now' = now + StepMs
  /\ UNCHANGED <<charts, pc, args, outcome, cache, calls>>

InitComplete ==
  /\ charts = StoreOf(Absent, Absent, 0, 0)
  /\ pc = "idle" /\ args = NoArgs /\ outcome = NoOutcome
  /\ now = 0 /\ cache = {} /\ calls = <<>>
  /\ records = {Appointment("confirmed")}
  /\ requests = <<>>

NextComplete == CreateCallLog \/ CompleteAppointment

SpecComplete == InitComplete /\ [][NextComplete]_vars

\* Request i completed an appointment, and no call log for it was created
\* after that.
CompletedLast(i) ==
  /\ requests[i].route = "complete" /\ requests[i].status = 200
  /\ \A j \in (i + 1)..Len(requests) :
       ~(requests[j].route = "post_call_log" /\ requests[j].status = 200
           /\ requests[j].id = requests[i].id)

\* C28: after a complete that succeeded the appointment is 'completed' and
\* none of its call logs has endedAt null or durationSeconds null; a complete
\* answered 403 changes nothing.
C28_CompleteClosesLogs ==
  \A i \in 1..Len(requests) :
    /\ CompletedLast(i) =>
         /\ \A a \in records :
              (a.coll = "telemedicine_appointments" /\ a.id = requests[i].id)
                => a.status = "completed"
         /\ \A d \in records :
              (d.coll = "telemedicine_call_logs" /\ d.appointmentId = requests[i].id)
                => (d.endedAt # NullDate /\ d.durationSeconds # NullSeconds)
    /\ (requests[i].route = "complete" /\ requests[i].status = 403) => requests[i].same

-----------------------------------------------------------------------------
(* Telemedicine: updating an appointment (telemedicine.routes.js) *)

\* authz.js: role === 'patient'
IsPatientRole(profile) == profile.role = RolePatient

U3 == <<"U", "3">>
Reason1 == <<"r", "1">>

\* An appointment stored by an older client: the patient is in patientUid.
LegacyAppointment ==
  [Appointment("requested") EXCEPT !.patientId = Null, !.patientUid = U1]

\* The callers of PATCH /appointments/:id: the patient of the appointment,
\* another patient, the doctor, and an account of no known role.
ApptCallers ==
  {[uid |-> U1, role |-> RolePatient], [uid |-> U3, role |-> RolePatient],
   [uid |-> U2, role |-> RoleDoctor], [uid |-> N1, role |-> RolePharmacist]}

\* The request bodies (none carries a date): a reason, a status, and a body
\* that names another patient.
ApptBodies ==
  {[reason |-> Reason1], [status |-> "confirmed"],
   [patientId |-> U3, patientUid |-> U3, reason |-> Reason1]}

\* The requests: every caller and body for the stored appointment, and the
\* patient's request for an id that is not stored.
ApptInputs ==
  {[caller |-> c, id |-> AP1, body |-> b] : c \in ApptCallers, b \in ApptBodies}
    \cup {[caller |-> [uid |-> U1, role |-> RolePatient], id |-> AP2,
           body |-> [reason |-> Reason1]]}

\* delete update.<field> for each of the fields
Without(update, fields) == [f \in DOMAIN update \ fields |-> update[f]]

\* The patient's update: { ...req.body, updatedAt, status: 'requested' }
\* without patientId, patientUid, providerUid and the preferred dates.
PatientUpdate(reqBody, t) ==
  Without([updatedAt |-> t, status |-> "requested"] @@ reqBody,
          {"patientId", "patientUid", "providerUid", "preferredStartAt", "preferredEndAt"})

\* The update of an admin or provider: { ...req.body, updatedAt } without
\* patientId, patientUid, providerUid and the preferred dates.
StaffUpdate(reqBody, t) ==
  Without([updatedAt |-> t] @@ reqBody,
          {"patientId", "patientUid", "providerUid", "preferredStartAt", "preferredEndAt"})

\* updateOne(filter, { $set: update }) on one document
SetFields(doc, update) ==
  [f \in DOMAIN doc \cup DOMAIN update |->
     IF f \in DOMAIN update THEN update[f] ELSE doc[f]]

\* A mutant of MatchesPatient: the filter without status: 'requested'.
MatchesPatientAnyStatus(d, id, uid) ==
  /\ d.coll = "telemedicine_appointments" /\ d.id = id
  /\ (d.patientId = uid \/ d.patientUid = uid)

\* { _id: id, status: 'requested', $or: [{ patientId: uid }, { patientUid: uid }] }
MatchesPatient(d, id, uid) ==
  /\ d.coll = "telemedicine_appointments" /\ d.id = id
  /\ d.status = "requested"
  /\ (d.patientId = uid \/ d.patientUid = uid)

\* The stored appointment of the given id, or NoRx.
ApptOf(recs, id) ==
  IF \E d \in recs : d.coll = "telemedicine_appointments" /\ d.id = id
  THEN CHOOSE d \in recs : d.coll = "telemedicine_appointments" /\ d.id = id
  ELSE NoRx

\* What PATCH /appointments/:id leaves in the log: the appointment of that
\* id before and after the request.
ApptServed(in, status, before, after) ==
  [route |-> "patch_appointment", uid |-> in.caller.uid, role |-> in.caller.role,
   id |-> in.id, body |-> in.body, status |-> status, before |-> before, after |-> after]

\* router.patch('/appointments/:id', ...)
PatchAppointment ==
  /\ Len(requests) < MaxTeleRequests
  /\ \E in \in ApptInputs :
       LET profile == [role |-> in.caller.role]
           before == ApptOf(records, in.id)
           byId == {d \in records : d.coll = "telemedicine_appointments" /\ d.id = in.id}
           matched == {d \in records : MatchesPatient(d, in.id, in.caller.uid)}
           staffSet == {SetFields(d, StaffUpdate(in.body, now)) : d \in byId}
           patientSet == {SetFields(d, PatientUpdate(in.body, now)) : d \in matched}
           answer(status, recs) ==
             /\ records' = recs
             /\ requests' = Append(requests,
                  ApptServed(in, status, before, ApptOf(recs, in.id)))
       IN IF IsAdmin(profile) \/ IsProvider(profile)
          THEN answer(200, (records \ byId) \cup staffSet)
          ELSE IF IsPatientRole(profile)
          THEN IF matched = {}
               THEN answer(403, records)
               ELSE answer(200, (records \ matched) \cup patientSet)
          ELSE answer(403, records)
  /\ now' = now + StepMs
  /\ UNCHANGED <<charts, pc, args, outcome, cache, calls>>

InitAppt ==
  /\ charts = StoreOf(Absent, Absent, 0, 0)
  /\ pc = "idle" /\ args = NoArgs /\ outcome = NoOutcome
  /\ now = StepMs /\ cache = {} /\ calls = <<>>
  /\ records \in {{Appointment("requested")}, {LegacyAppointment}}
  /\ requests = <<>>

NextAppt == PatchAppointment

SpecAppt == InitAppt /\ [][NextAppt]_vars

\* The appointment is the caller's and its status is 'requested'.
OwnAndRequested(before, uid) ==
  /\ before # NoRx
  /\ before.patientId = uid \/ before.patientUid = uid
  /\ before.status = "requested"

-----------------------------------------------------------------------------
(* Telemedicine: open slots (telemedicine.routes.js). Dates are counted in
   minutes from the start of an hour. *)

\* req.query.minutes
SlotMinutes == 20

\* The provider's published availability: one calendar slot.
Availability ==
  [providerId |-> U2, calendarSlots |-> <<[startAt |-> 0, endAt |-> 120]>>]

\* req.query.from and req.query.to
FromPoints == {0, 30}
ToPoint == 120

\* The document POST /appointments inserts for a body with providerId and
\* scheduledAt and no scheduledEndAt; n stands for the new ObjectId.
SlotAppointment(n, patientId, providerId, scheduledAt) ==
  [coll |-> "telemedicine_appointments", id |-> n, patientId |-> patientId,
   providerId |-> providerId, status |-> "requested",
   scheduledAt |-> scheduledAt, scheduledEndAt |-> NullDate]

\* const activeStatuses
ActiveStatuses ==
  {"requested", "upcoming", "scheduled", "inProgress", "in_progress", "in-progress"}

\* The filter of find() on telemedicine_appointments. The object literal has
\* the key $or twice and keeps the second: the provider clause is not part of
\* the filter.
BookedFilter(d, providerId, from, to) ==
  /\ d.coll = "telemedicine_appointments"
  /\ d.status \in ActiveStatuses
  /\ d.scheduledAt # NullDate /\ d.scheduledAt >= from /\ d.scheduledAt < to

\* const bookings: start and end of each appointment found.
Bookings(recs, providerId, from, to) ==
  {[start |-> d.scheduledAt,
    end |-> IF SafeDate(d.scheduledEndAt) # NullDate THEN d.scheduledEndAt
            ELSE d.scheduledAt + SlotMinutes] :
     d \in {x \in recs : BookedFilter(x, providerId, from, to)}}

\* const overlaps
Overlaps(aStart, aEnd, bStart, bEnd) == aStart < bEnd /\ bStart < aEnd

\* The availability windows, clamped to the requested range.
Windows(from, to) ==
  LET cal == Availability.calendarSlots
      clampedStart(w) == IF w.startAt < from THEN from ELSE w.startAt
      clampedEnd(w) == IF w.endAt > to THEN to ELSE w.endAt
  IN {[start |-> clampedStart(cal[i]), end |-> clampedEnd(cal[i])] :
        i \in {j \in DOMAIN cal : clampedEnd(cal[j]) > clampedStart(cal[j])}}

\* Round cursor up to the next interval boundary.
RoundUp(start) ==
  LET mod == (start % 60) % SlotMinutes
  IN IF mod # 0 THEN start + (SlotMinutes - mod) ELSE start

RECURSIVE SlotsFrom(_, _, _, _)
\* The while loop over one window: the slots from cursor on that end after
\* the present time and overlap no booking.
SlotsFrom(cursor, wEnd, bookings, at) ==
  IF cursor + SlotMinutes > wEnd THEN {}
  ELSE LET slotEnd == cursor + SlotMinutes
           blocked == \E b \in bookings : Overlaps(cursor, slotEnd, b.start, b.end)
           rest == SlotsFrom(slotEnd, wEnd, bookings, at)
       IN IF slotEnd <= at \/ blocked THEN rest
          ELSE {[startAt |-> cursor, endAt |-> slotEnd]} \cup rest

\* The slots of the answer (as a set: the answer lists them by startAt).
OpenSlots(recs, providerId, from, to, at) ==
  IF Availability.providerId # providerId THEN {}
  ELSE UNION {SlotsFrom(RoundUp(w.start), w.end, Bookings(recs, providerId, from, to), at) :
                w \in Windows(from, to)}

\* router.post('/appointments', ...) by patient U1, with a provider and a time
RequestAppointment ==
  /\ Len(requests) < MaxTeleRequests
  /\ \E providerId \in {U2, N1}, scheduledAt \in {25, 60} :
       /\ records' = records \cup
            {SlotAppointment(Len(requests) + 1, U1, providerId, scheduledAt)}
       /\ requests' = Append(requests,
            [route |-> "post_appointment", status |-> 200, providerId |-> providerId,
             from |-> scheduledAt, to |-> scheduledAt, at |-> now,
             slots |-> {}, appts |-> {}])
  /\ UNCHANGED <<charts, pc, args, outcome, now, cache, calls>>

\* router.patch('/appointments/:id', ...) by the doctor, body { status: 'cancelled' }
CancelAppointment ==
  /\ Len(requests) < MaxTeleRequests
  /\ \E d \in records :
       /\ d.status # "cancelled"
       /\ records' = (records \ {d}) \cup {[d EXCEPT !.status = "cancelled"]}
       /\ requests' = Append(requests,
            [route |-> "cancel_appointment", status |-> 200, providerId |-> d.providerId,
             from |-> d.scheduledAt, to |-> d.scheduledAt, at |-> now,
             slots |-> {}, appts |-> {}])
  /\ UNCHANGED <<charts, pc, args, outcome, now, cache, calls>>

\* router.get('/open-slots/:providerId', ...)
GetOpenSlots ==
  /\ Len(requests) < MaxTeleRequests
  /\ \E from \in FromPoints :
       requests' = Append(requests,
         [route |-> "open_slots", status |-> 200, providerId |-> U2,
          from |-> from, to |-> ToPoint, at |-> now,
          slots |-> OpenSlots(records, U2, from, ToPoint, now), appts |-> records])
  /\ UNCHANGED <<charts, pc, args, outcome, now, cache, calls, records>>

InitSlots ==
  /\ charts = StoreOf(Absent, Absent, 0, 0)
  /\ pc = "idle" /\ args = NoArgs /\ outcome = NoOutcome
  /\ now = 0 /\ cache = {} /\ calls = <<>>
  /\ records = {}
  /\ requests = <<>>

NextSlots == RequestAppointment \/ CancelAppointment \/ GetOpenSlots

SpecSlots == InitSlots /\ [][NextSlots]_vars

\* The slots generated from the availability for the range, before any
\* booking is taken out.
GeneratedSlots(providerId, from, to, at) == OpenSlots({}, providerId, from, to, at)

\* The appointment's interval, as the handler reads it.
ApptEnd(a) == IF a.scheduledEndAt # NullDate THEN a.scheduledEndAt
              ELSE a.scheduledAt + SlotMinutes

\* C30: a generated slot is left out of the answer exactly when it overlaps
\* an appointment of the same provider that is neither cancelled nor
\* completed, wherever that appointment starts.
C30_OpenSlots ==
  \A i \in 1..Len(requests) :
    LET r == requests[i]
    IN r.route = "open_slots" =>
         \A slot \in GeneratedSlots(r.providerId, r.from, r.to, r.at) :
           (slot \notin r.slots) <=>
             \E a \in r.appts :
               /\ a.providerId = r.providerId
               /\ a.status \notin {"cancelled", "completed"}
               /\ Overlaps(slot.startAt, slot.endAt, a.scheduledAt, ApptEnd(a))

=============================================================================
